---- MODULE Spec2Model ----
(***************************************************************************)
(* Model of the template reverse-engineering engine of tfsm2ttp            *)
(* (core.py, table.py, paragraph.py, multisection.py, converter.py).       *)
(*                                                                         *)
(* Text is modelled at character level: a Python str is a sequence of      *)
(* one-character strings, so substring search, replacement, stripping and  *)
(* the signature regex are computed the way the code computes them.        *)
(* A Python dict is a sequence of <<key, value>> pairs with distinct keys, *)
(* in insertion order.                                                     *)
(***************************************************************************)
EXTENDS Integers, Sequences, FiniteSets, TLC

VARIABLES
    pc,                 \* position of the running operation
    template_content,   \* the TextFSM grammar text, as its lines
    headers,            \* oracle output: ordered field names
    rows,               \* oracle output: raw rows (cells)
    cli_lines,          \* the sample text, split into lines
    min_cols,           \* quality threshold
    attempted,          \* strategies attempted so far, in order
    ms_result,          \* result of generate_multisection_template
    table_result,       \* result of generate_table_template
    para_result,        \* result of generate_paragraph_template
    returned,           \* what generate_ttp_template returned
    call,               \* arguments of the pure function under check
    ret                 \* its return value

vars == <<pc, template_content, headers, rows, cli_lines, min_cols, attempted,
          ms_result, table_result, para_result, returned, call, ret>>

selector_vars == <<template_content, headers, rows, cli_lines, min_cols,
                   attempted, ms_result, table_result, para_result, returned>>

None == [none |-> TRUE]

(***************************************************************************)
(* Characters and Python str primitives                                    *)
(***************************************************************************)
LowerLetters == <<"a","b","c","d","e","f","g","h","i","j","k","l","m","n","o","p","q","r","s","t","u","v","w","x","y","z">>
UpperLetters == <<"A","B","C","D","E","F","G","H","I","J","K","L","M","N","O","P","Q","R","S","T","U","V","W","X","Y","Z">>
DigitChars == {"0","1","2","3","4","5","6","7","8","9"}
Range(f) == {f[i] : i \in DOMAIN f}
LetterChars == Range(LowerLetters) \cup Range(UpperLetters)

\* c.isalnum() and the regex class \w, over the model's ASCII alphabet
IsAlnum(c) == c \in LetterChars \cup DigitChars
IsWordChar(c) == IsAlnum(c) \/ c = "_"
\* the regex class \s and the characters str.strip() removes
IsSpace(c) == c \in {" ", "\t"}

LowerChar(c) ==
    IF \E i \in 1..26 : UpperLetters[i] = c
    THEN LowerLetters[CHOOSE i \in 1..26 : UpperLetters[i] = c]
    ELSE c
\* str.lower()
Lower(s) == [i \in 1..Len(s) |-> LowerChar(s[i])]

\* s[i:] for a 0-based i
From(s, i) == SubSeq(s, i + 1, Len(s))

\* s[i:i+len(v)] == v for a 0-based i
MatchAt(s, v, i) ==
    i + Len(v) <= Len(s) /\ \A k \in 1..Len(v) : s[i + k] = v[k]
\* s.find(v, i): 0-based index of the first occurrence at or after i, -1 when
\* there is none
FindFrom(s, v, i) ==
    LET found == {k \in i..(Len(s) - Len(v)) : MatchAt(s, v, k)}
    IN  IF found = {} THEN -1
        ELSE CHOOSE k \in found : \A j \in found : k <= j
Find(s, v) == FindFrom(s, v, 0)
\* `v in s`
Contains(s, v) == Find(s, v) # -1
\* s.replace(v, new, 1)
ReplaceFirst(s, v, new) ==
    LET p == Find(s, v)
    IN  IF p = -1 THEN s
        ELSE SubSeq(s, 1, p) \o new \o From(s, p + Len(v))

RECURSIVE LStrip(_)
LStrip(s) == IF s # <<>> /\ IsSpace(Head(s)) THEN LStrip(Tail(s)) ELSE s
RECURSIVE RStrip(_)
RStrip(s) ==
    IF s # <<>> /\ IsSpace(s[Len(s)]) THEN RStrip(SubSeq(s, 1, Len(s) - 1)) ELSE s
\* str.strip()
Strip(s) == RStrip(LStrip(s))

\* str.isdigit()
IsDigitStr(s) == s # <<>> /\ \A i \in 1..Len(s) : s[i] \in DigitChars

\* sep.join(parts)
RECURSIVE Join(_, _)
Join(parts, sep) ==
    IF parts = <<>> THEN <<>>
    ELSE IF Len(parts) = 1 THEN parts[1]
    ELSE parts[1] \o sep \o Join(Tail(parts), sep)

\* 0-based index just past the maximal run of digits of s that starts at i
RECURSIVE DigitRunEnd(_, _)
DigitRunEnd(s, i) ==
    IF i < Len(s) /\ s[i + 1] \in DigitChars THEN DigitRunEnd(s, i + 1) ELSE i

\* re.match(r'\d+\.\d+\.\d+\.\d+', s): a match anchored at the start only
RECURSIVE MatchDottedFrom(_, _, _)
MatchDottedFrom(s, i, groups) ==
    LET e == DigitRunEnd(s, i)
    IN  /\ e > i
        /\ \/ groups = 1
           \/ /\ e < Len(s)
              /\ s[e + 1] = "."
              /\ MatchDottedFrom(s, e + 1, groups - 1)
QuadGroups == 4
MatchDottedQuad(s) == MatchDottedFrom(s, 0, QuadGroups)

(***************************************************************************)
(* core.py: infer_variable_type                                            *)
(***************************************************************************)
PhraseFilter == <<" ","|"," ","O","R","P","H","R","A","S","E","}","}">>
DigitsFilter == <<" ","|"," ","r","e","(","\"","\\","\\","d","+","\"",")","}","}">>
Ipv4Filter == <<" ","|"," ","r","e","(","\"","\\","\\","d","+","\\","\\",".","\\","\\","d","+","\\","\\",".","\\","\\","d","+","\\","\\",".","\\","\\","d","+","\"",")","}","}">>
MacFilter == <<" ","|"," ","r","e","(","\"","[","0","-","9","a","-","f","A","-","F",":",".","-","]","+","\"",")","}","}">>
WordFilter == <<" ","|"," ","r","e","(","\"","\\","\\","w","+","\"",")","}","}">>
VersionFilter == <<" ","|"," ","r","e","(","\"","[","\\","\\","d","\\","\\",".","\\","\\","(","\\","\\",")","A","-","Z","a","-","z","]","+","\"",")","}","}">>
NonSpaceFilter == <<" ","|"," ","r","e","(","\"","\\","\\","S","+","\"",")","}","}">>
HasWordFilter == <<" ","|"," ","r","e","(","\"",".","*","\\","\\","w",".","*","\"",")","}","}">>
NoFilter == <<"}","}">>

\* '{{' + var_name + <filter>
Placeholder(var_name, filter) == <<"{","{">> \o var_name \o filter

StatusVocab == { <<"s","t","a","t","u","s">>, <<"s","t","a","t","e">> }
CountVocab ==
    { <<"p","o","r","t">>, <<"v","l","a","n">>, <<"i","d">>, <<"c","o","u","n","t">>,
      <<"s","l","o","t">>, <<"m","o","d","u","l","e">>, <<"v","i","d">>, <<"r","e","v">>,
      <<"s","t","r","a","t","u","m">> }
AddressVocab ==
    { <<"i","p">>, <<"a","d","d","r">>, <<"a","d","d","r","e","s","s">>,
      <<"r","e","f","e","r","e","n","c","e">> }
MacVocab == { <<"m","a","c">> }
SerialVocab == { <<"s","n">>, <<"s","e","r","i","a","l">> }
VersionVocab == { <<"v","e","r","s","i","o","n">>, <<"v","e","r">> }
UptimeVocab == { <<"u","p","t","i","m","e">> }
HostVocab == { <<"h","o","s","t","n","a","m","e">>, <<"h","o","s","t">> }
ImageVocab == { <<"i","m","a","g","e">>, <<"f","i","l","e">>, <<"f","l","a","s","h">> }

\* any(x in var_name_lower for x in vocab)
NameHas(var_name, vocab) == \E x \in vocab : Contains(Lower(var_name), x)

\* Mutant of infer_variable_type: the numeric check is made before the
\* status/state check.
infer_variable_type_numeric_first(var_name, sample_value, column_has_spaces, is_last_field) ==
    IF column_has_spaces THEN Placeholder(var_name, PhraseFilter)
    ELSE IF is_last_field THEN Placeholder(var_name, PhraseFilter)
    ELSE IF NameHas(var_name, CountVocab) /\ IsDigitStr(sample_value)
        THEN Placeholder(var_name, DigitsFilter)
    ELSE IF NameHas(var_name, StatusVocab) THEN Placeholder(var_name, PhraseFilter)
    ELSE IF NameHas(var_name, AddressVocab) /\ MatchDottedQuad(sample_value)
        THEN Placeholder(var_name, Ipv4Filter)
    ELSE IF NameHas(var_name, MacVocab) THEN Placeholder(var_name, MacFilter)
    ELSE IF NameHas(var_name, SerialVocab) THEN Placeholder(var_name, WordFilter)
    ELSE IF NameHas(var_name, VersionVocab) THEN Placeholder(var_name, VersionFilter)
    ELSE IF NameHas(var_name, UptimeVocab) THEN Placeholder(var_name, PhraseFilter)
    ELSE IF NameHas(var_name, HostVocab) THEN Placeholder(var_name, NonSpaceFilter)
    ELSE IF NameHas(var_name, ImageVocab) THEN Placeholder(var_name, NoFilter)
    ELSE IF sample_value # <<>> /\ ~\E i \in 1..Len(sample_value) : IsAlnum(sample_value[i])
        THEN Placeholder(var_name, HasWordFilter)
    ELSE Placeholder(var_name, NoFilter)

infer_variable_type(var_name, sample_value, column_has_spaces, is_last_field) ==
    IF column_has_spaces THEN Placeholder(var_name, PhraseFilter)
    ELSE IF is_last_field THEN Placeholder(var_name, PhraseFilter)
    ELSE IF NameHas(var_name, StatusVocab) THEN Placeholder(var_name, PhraseFilter)
    ELSE IF NameHas(var_name, CountVocab) /\ IsDigitStr(sample_value)
        THEN Placeholder(var_name, DigitsFilter)
    ELSE IF NameHas(var_name, AddressVocab) /\ MatchDottedQuad(sample_value)
        THEN Placeholder(var_name, Ipv4Filter)
    ELSE IF NameHas(var_name, MacVocab) THEN Placeholder(var_name, MacFilter)
    ELSE IF NameHas(var_name, SerialVocab) THEN Placeholder(var_name, WordFilter)
    ELSE IF NameHas(var_name, VersionVocab) THEN Placeholder(var_name, VersionFilter)
    ELSE IF NameHas(var_name, UptimeVocab) THEN Placeholder(var_name, PhraseFilter)
    ELSE IF NameHas(var_name, HostVocab) THEN Placeholder(var_name, NonSpaceFilter)
    ELSE IF NameHas(var_name, ImageVocab) THEN Placeholder(var_name, NoFilter)
    ELSE IF sample_value # <<>> /\ ~\E i \in 1..Len(sample_value) : IsAlnum(sample_value[i])
        THEN Placeholder(var_name, HasWordFilter)
    ELSE Placeholder(var_name, NoFilter)

(***************************************************************************)
(* Python dicts (insertion-ordered): sequences of <<key, value>> pairs     *)
(***************************************************************************)
DictHas(d, k) == \E i \in 1..Len(d) : d[i][1] = k
DictGet(d, k) == d[CHOOSE i \in 1..Len(d) : d[i][1] = k][2]
\* d[k] = v: an existing key keeps its position, a new key goes last
DictSet(d, k, v) ==
    IF DictHas(d, k)
    THEN [i \in 1..Len(d) |-> IF d[i][1] = k THEN <<k, v>> ELSE d[i]]
    ELSE Append(d, <<k, v>>)
DictKeys(d) == [i \in 1..Len(d) |-> d[i][1]]
DictValues(d) == [i \in 1..Len(d) |-> d[i][2]]
\* d.update(e)
RECURSIVE DictUpdate(_, _)
DictUpdate(d, e) ==
    IF e = <<>> THEN d ELSE DictUpdate(DictSet(d, e[1][1], e[1][2]), Tail(e))

(***************************************************************************)
(* core.py: analyze_column_patterns                                        *)
(***************************************************************************)
RECURSIVE AnalyzeRow(_, _)
AnalyzeRow(analysis, row) ==
    IF row = <<>> THEN analysis
    ELSE LET col == row[1][1]
             value == row[1][2]
             old == IF DictHas(analysis, col) THEN DictGet(analysis, col)
                    ELSE [has_spaces |-> FALSE, all_values |-> <<>>]
             new == [has_spaces |-> old.has_spaces \/ Contains(value, <<" ">>),
                     all_values |-> Append(old.all_values, value)]
         IN  AnalyzeRow(DictSet(analysis, col, new), Tail(row))
RECURSIVE AnalyzeRows(_, _)
AnalyzeRows(analysis, quality_rows) ==
    IF quality_rows = <<>> THEN analysis
    ELSE AnalyzeRows(AnalyzeRow(analysis, Head(quality_rows)), Tail(quality_rows))
analyze_column_patterns(quality_rows) == AnalyzeRows(<<>>, quality_rows)

(***************************************************************************)
(* core.py: substitute_ttp_vars                                            *)
(***************************************************************************)
\* sorted(items, key=lambda x: len(x[1]), reverse=True): stable, so items of
\* equal length keep their dict order
RECURSIVE InsertByLenDesc(_, _)
InsertByLenDesc(sorted, item) ==
    IF sorted = <<>> THEN <<item>>
    ELSE IF Len(Head(sorted)[2]) >= Len(item[2])
         THEN <<Head(sorted)>> \o InsertByLenDesc(Tail(sorted), item)
         ELSE <<item>> \o sorted
RECURSIVE SortByLenDesc(_)
SortByLenDesc(items) ==
    IF items = <<>> THEN <<>>
    ELSE InsertByLenDesc(SortByLenDesc(SubSeq(items, 1, Len(items) - 1)),
                         items[Len(items)])

\* var_positions: end position of the first occurrence of each value in line
RECURSIVE VarPositions(_, _)
VarPositions(line, row_values) ==
    IF row_values = <<>> THEN <<>>
    ELSE LET var_name == row_values[1][1]
             value == row_values[1][2]
             pos == Find(line, value)
             rest == VarPositions(line, Tail(row_values))
         IN  IF pos >= 0 THEN <<<<var_name, pos + Len(value)>>>> \o rest ELSE rest
\* last_var = max(var_positions, key=var_positions.get) if var_positions else
\* None: <<name>> for the first key holding the maximum, <<>> for None
LastVar(var_positions) ==
    IF var_positions = <<>> THEN <<>>
    ELSE <<var_positions[CHOOSE i \in 1..Len(var_positions) :
            /\ \A j \in 1..Len(var_positions) : var_positions[j][2] <= var_positions[i][2]
            /\ \A j \in 1..(i - 1) : var_positions[j][2] < var_positions[i][2]][1]>>

\* column_analysis.get(var_name, {}).get('has_spaces', False)
HasSpaces(column_analysis, var_name) ==
    DictHas(column_analysis, var_name) /\ DictGet(column_analysis, var_name).has_spaces

\* The replacement loop. acc.line is ttp_line; acc.inserted lists, in order,
\* the placeholders the loop has put into the line.
RECURSIVE SubstituteLoop(_, _, _, _)
SubstituteLoop(acc, sorted_items, column_analysis, last_var) ==
    IF sorted_items = <<>> THEN acc
    ELSE LET var_name == sorted_items[1][1]
             value == sorted_items[1][2]
             rest == Tail(sorted_items)
         IN  IF value = <<>> \/ Strip(value) = <<>>
             THEN SubstituteLoop(acc, rest, column_analysis, last_var)
             ELSE IF Find(acc.line, value) = -1
             THEN SubstituteLoop(acc, rest, column_analysis, last_var)
             ELSE LET new_var == infer_variable_type(var_name, value,
                                    HasSpaces(column_analysis, var_name),
                                    last_var = <<var_name>>)
                  IN  SubstituteLoop(
                        [line |-> ReplaceFirst(acc.line, value, new_var),
                         inserted |-> Append(acc.inserted, <<var_name, new_var>>)],
                        rest, column_analysis, last_var)

SubstituteTrace(line, row_values, column_analysis) ==
    SubstituteLoop([line |-> line, inserted |-> <<>>], SortByLenDesc(row_values),
                   column_analysis, LastVar(VarPositions(line, row_values)))

substitute_ttp_vars(line, row_values, column_analysis) ==
    SubstituteTrace(line, row_values, column_analysis).line

(***************************************************************************)
(* core.py: generalize_pattern, pattern_signature                          *)
(***************************************************************************)
\* 0-based index just past the maximal run of spaces of s that starts at i
RECURSIVE SpaceRunEnd(_, _)
SpaceRunEnd(s, i) ==
    IF i < Len(s) /\ s[i + 1] = " " THEN SpaceRunEnd(s, i + 1) ELSE i

\* re.sub(r' {min_run,}', repl, s)
\* what the character at the 0-based position i becomes: a run of min_run or
\* more spaces gives repl at its first position and nothing at the others,
\* every other character stays
CollapsePiece(s, i, min_run, repl) ==
    IF s[i + 1] # " " THEN <<s[i + 1]>>
    ELSE LET start == CHOOSE a \in 0..i :
                          /\ \A k \in a..i : s[k + 1] = " "
                          /\ a = 0 \/ s[a] # " "
         IN  IF SpaceRunEnd(s, start) - start < min_run THEN <<" ">>
             ELSE IF i = start THEN repl
             ELSE <<>>
\* the pieces of the positions lo..hi - 1, joined; the range is halved so
\* that the evaluation depth stays logarithmic in the length of the line
RECURSIVE CollapseRange(_, _, _, _, _)
CollapseRange(s, lo, hi, min_run, repl) ==
    IF hi <= lo THEN <<>>
    ELSE IF hi = lo + 1 THEN CollapsePiece(s, lo, min_run, repl)
    ELSE LET mid == (lo + hi) \div 2
         IN  CollapseRange(s, lo, mid, min_run, repl)
             \o CollapseRange(s, mid, hi, min_run, repl)
CollapseSpaces(s, min_run, repl) == CollapseRange(s, 0, Len(s), min_run, repl)

\* re.sub(r' {min_run,}', repl, s, count=1): only the first run is replaced
CollapseFirstRun(s, min_run, repl) ==
    IF \E i \in 0..(Len(s) - 1) : SpaceRunEnd(s, i) - i >= min_run
    THEN LET i == CHOOSE i \in 0..(Len(s) - 1) :
                    /\ SpaceRunEnd(s, i) - i >= min_run
                    /\ \A j \in 0..(i - 1) : SpaceRunEnd(s, j) - j < min_run
         IN  SubSeq(s, 1, i) \o repl \o From(s, SpaceRunEnd(s, i))
    ELSE s

TableMinRun == 2

\* Mutant of generalize_pattern: only the first run of spaces is collapsed.
generalize_pattern_first_run_only(ttp_line) ==
    LET stripped == LStrip(ttp_line)
        leading == SubSeq(ttp_line, 1, Len(ttp_line) - Len(stripped))
    IN  leading \o CollapseFirstRun(stripped, TableMinRun, <<" ">>)

generalize_pattern(ttp_line) ==
    LET stripped == LStrip(ttp_line)
        leading == SubSeq(ttp_line, 1, Len(ttp_line) - Len(stripped))
    IN  leading \o CollapseSpaces(stripped, TableMinRun, <<" ">>)

RECURSIVE WordRunEnd(_, _)
WordRunEnd(s, i) ==
    IF i < Len(s) /\ IsWordChar(s[i + 1]) THEN WordRunEnd(s, i + 1) ELSE i
RECURSIVE WhiteRunEnd(_, _)
WhiteRunEnd(s, i) ==
    IF i < Len(s) /\ IsSpace(s[i + 1]) THEN WhiteRunEnd(s, i + 1) ELSE i
RECURSIVE NonBraceRunEnd(_, _)
NonBraceRunEnd(s, i) ==
    IF i < Len(s) /\ s[i + 1] # "}" THEN NonBraceRunEnd(s, i + 1) ELSE i

\* One match attempt of \{\{(\w+)(?:\s*\|[^}]*)?\}\} at 0-based index i:
\* [ok, name, end]. Every quantifier is followed by a character outside its
\* class, so the greedy match is the only one.
SigMatchAt(s, i) ==
    LET fail == [ok |-> FALSE, name |-> <<>>, end |-> i]
        w == WordRunEnd(s, i + 2)
        k == WhiteRunEnd(s, w)
        m == NonBraceRunEnd(s, k + 1)
    IN  IF ~MatchAt(s, <<"{","{">>, i) \/ w = i + 2 THEN fail
        ELSE IF k < Len(s) /\ s[k + 1] = "|" /\ MatchAt(s, <<"}","}">>, m)
        THEN [ok |-> TRUE, name |-> SubSeq(s, i + 3, w), end |-> m + 2]
        ELSE IF MatchAt(s, <<"}","}">>, w)
        THEN [ok |-> TRUE, name |-> SubSeq(s, i + 3, w), end |-> w + 2]
        ELSE fail
\* re.findall: non-overlapping matches, scanning left to right
RECURSIVE SigFindAll(_, _)
SigFindAll(s, i) ==
    IF i >= Len(s) THEN <<>>
    ELSE LET r == SigMatchAt(s, i)
         IN  IF r.ok THEN <<r.name>> \o SigFindAll(s, r.end)
             ELSE SigFindAll(s, i + 1)
vars_found(ttp_line) == SigFindAll(ttp_line, 0)
pattern_signature(ttp_line) == Join(vars_found(ttp_line), <<",">>)

(***************************************************************************)
(* Specification SpecInfer: infer_variable_type applied to bounded inputs  *)
(***************************************************************************)
InferNames ==
    { <<"s","t","a","t","u","s">>,
      <<"p","o","r","t","_","s","t","a","t","u","s">>,
      <<"P","O","R","T">>,
      <<"V","l","a","n","_","S","t","a","t","e">>,
      <<"I","P","_","A","D","D","R","E","S","S">>,
      <<"d","e","s","c","r","i","p","t","i","o","n">>,
      <<"D","E","S","T","_","M","A","C">>,
      <<"S","N">>,
      <<"s","e","r","i","a","l">>,
      <<"V","E","R","S","I","O","N">>,
      <<"u","p","t","i","m","e">>,
      <<"H","O","S","T","N","A","M","E">>,
      <<"i","m","a","g","e">>,
      <<"N","A","M","E">>,
      <<"N","E","I","G","H","B","O","R","_","I","D">>,
      <<"m","a","c","a","d","d","r","e","s","s">>,
      <<"r","e","v","_","v","e","r">>,
      <<"h","o","s","t","_","i","p">> }
InferSamples ==
    { <<"D","o","w","n">>,
      <<"1">>,
      <<"1","0">>,
      <<"1","0",".","0",".","0",".","1">>,
      <<"1","0",".","0",".","0",".","1","/","2","4">>,
      <<"1",".","2",".","3">>,
      <<"-","-","-">>,
      <<"u","p"," ","u","p">>,
      <<"a","1">>,
      <<"1","5",".","1","(","4",")","M","4">>,
      <<"-">> }

IdleSelector ==
    /\ template_content = <<>>
    /\ headers = <<>>
    /\ rows = <<>>
    /\ cli_lines = <<>>
    /\ min_cols = 0
    /\ attempted = <<>>
    /\ ms_result = None
    /\ table_result = None
    /\ para_result = None
    /\ returned = None

InitInfer ==
    /\ pc = "call"
    /\ IdleSelector
    /\ call \in [var_name : InferNames, sample_value : InferSamples,
                 column_has_spaces : BOOLEAN, is_last_field : BOOLEAN]
    /\ ret = None

InferCall ==
    /\ pc = "call"
    /\ ret' = infer_variable_type(call.var_name, call.sample_value,
                                  call.column_has_spaces, call.is_last_field)
    /\ pc' = "done"
    /\ UNCHANGED <<call, selector_vars>>

NextInfer == InferCall

SpecInfer == InitInfer /\ [][NextInfer]_vars

\* The documented rule chain of the Type Inferencer: condition k of rules 1..11
RuleHolds(k, c) ==
    CASE k = 1 -> c.column_has_spaces \/ c.is_last_field
      [] k = 2 -> NameHas(c.var_name, StatusVocab)
      [] k = 3 -> NameHas(c.var_name, CountVocab) /\ IsDigitStr(c.sample_value)
      [] k = 4 -> NameHas(c.var_name, AddressVocab) /\ MatchDottedQuad(c.sample_value)
      [] k = 5 -> NameHas(c.var_name, MacVocab)
      [] k = 6 -> NameHas(c.var_name, SerialVocab)
      [] k = 7 -> NameHas(c.var_name, VersionVocab)
      [] k = 8 -> NameHas(c.var_name, UptimeVocab)
      [] k = 9 -> NameHas(c.var_name, HostVocab)
      [] k = 10 -> NameHas(c.var_name, ImageVocab)
      [] OTHER -> TRUE
RuleFilter(k, c) ==
    CASE k \in {1, 2, 8} -> PhraseFilter
      [] k = 3 -> DigitsFilter
      [] k = 4 -> Ipv4Filter
      [] k = 5 -> MacFilter
      [] k = 6 -> WordFilter
      [] k = 7 -> VersionFilter
      [] k = 9 -> NonSpaceFilter
      [] k = 10 -> NoFilter
      [] OTHER -> IF \A i \in 1..Len(c.sample_value) : ~IsAlnum(c.sample_value[i])
                  THEN HasWordFilter ELSE NoFilter

\* C6: infer_variable_type returns the placeholder of the first rule, in the
\* documented order 1..11, whose condition holds; 'status'/'Down' (no space,
\* not last) gets the phrase placeholder by rule 2, and 'port_status'/'1'
\* gets the phrase placeholder, not the numeric one.
C6_FirstMatchingRuleWins ==
    pc = "done" =>
        /\ \A k \in 1..11 :
              (RuleHolds(k, call) /\ \A j \in 1..(k - 1) : ~RuleHolds(j, call))
                  => ret = Placeholder(call.var_name, RuleFilter(k, call))
        /\ (/\ call.var_name \in { <<"s","t","a","t","u","s">>,
                                   <<"p","o","r","t","_","s","t","a","t","u","s">> }
            /\ ~call.column_has_spaces /\ ~call.is_last_field)
              => ret = Placeholder(call.var_name, PhraseFilter)

\* Witness of C6: 'port_status' with sample '1', neither space-bearing nor
\* last, has been typed as a phrase.
C6_Witness ==
    /\ pc = "done"
    /\ call.var_name = <<"p","o","r","t","_","s","t","a","t","u","s">>
    /\ call.sample_value = <<"1">>
    /\ ~call.column_has_spaces /\ ~call.is_last_field
    /\ ret = Placeholder(call.var_name, PhraseFilter)

(***************************************************************************)
(* Specification SpecSubst: substitute_ttp_vars applied to bounded inputs  *)
(***************************************************************************)
SubstRows ==
    {
      \* {'PORT': '1', 'NAME': 'Gi0/1', 'SN': 'ABC123'}
      << <<<<"P","O","R","T">>, <<"1">>>>, <<<<"N","A","M","E">>, <<"G","i","0","/","1">>>>, <<<<"S","N">>, <<"A","B","C","1","2","3">>>> >>,
      \* {'NO': 'ON', 'X': 'O', 'Z': 'zz'}
      << <<<<"N","O">>, <<"O","N">>>>, <<<<"X">>, <<"O">>>>, <<<<"Z">>, <<"z","z">>>> >>,
      \* {'A': '1', 'B': '10'}
      << <<<<"A">>, <<"1">>>>, <<<<"B">>, <<"1","0">>>> >>,
      \* {'PORT': '10', 'VLAN': '1', 'STATUS': 'up'}
      << <<<<"P","O","R","T">>, <<"1","0">>>>, <<<<"V","L","A","N">>, <<"1">>>>, <<<<"S","T","A","T","U","S">>, <<"u","p">>>> >>,
      \* {'NAME': 'Gi0/2', 'DESC': 'to core'}
      << <<<<"N","A","M","E">>, <<"G","i","0","/","2">>>>, <<<<"D","E","S","C">>, <<"t","o"," ","c","o","r","e">>>> >>,
      \* {'NEIGHBOR': '10.0.0.1', 'CODE': 'O'}
      << <<<<"N","E","I","G","H","B","O","R">>, <<"1","0",".","0",".","0",".","1">>>>, <<<<"C","O","D","E">>, <<"O">>>> >>
    }
SubstLines ==
    {
      \* '1  Gi0/1  ABC123'
      <<"1"," "," ","G","i","0","/","1"," "," ","A","B","C","1","2","3">>,
      \* 'ON O zz'
      <<"O","N"," ","O"," ","z","z">>,
      \* '10 1'
      <<"1","0"," ","1">>,
      \* '1 10'
      <<"1"," ","1","0">>,
      \* '10  1  up'
      <<"1","0"," "," ","1"," "," ","u","p">>,
      \* 'Gi0/2 to core'
      <<"G","i","0","/","2"," ","t","o"," ","c","o","r","e">>,
      \* '10.0.0.1 O'
      <<"1","0",".","0",".","0",".","1"," ","O">>,
      \* '  Gi0/1   1'
      <<" "," ","G","i","0","/","1"," "," "," ","1">>
    }

InitSubst ==
    /\ pc = "call"
    /\ IdleSelector
    /\ \E line \in SubstLines, row_values \in SubstRows :
          \E column_analysis \in {<<>>, analyze_column_patterns(<<row_values>>)} :
              call = [line |-> line, row_values |-> row_values,
                      column_analysis |-> column_analysis]
    /\ ret = None

SubstCall ==
    /\ pc = "call"
    /\ ret' = SubstituteTrace(call.line, call.row_values, call.column_analysis)
    /\ pc' = "done"
    /\ UNCHANGED <<call, selector_vars>>

NextSubst == SubstCall

SpecSubst == InitSubst /\ [][NextSubst]_vars

\* some value of the row is a substring of another value of the row
HasNestedValues(row_values) ==
    \E i, j \in 1..Len(row_values) :
        i # j /\ Contains(row_values[i][2], row_values[j][2])

\* C7: substitution is substring-collision-safe: when one value is a
\* substring of another, every placeholder the loop inserted is still intact
\* in the returned line (a later, shorter replacement never alters it).
C7_PlaceholdersStayIntact ==
    (pc = "done" /\ HasNestedValues(call.row_values)) =>
        \A i \in 1..Len(ret.inserted) : Contains(ret.line, ret.inserted[i][2])

(***************************************************************************)
(* Specification SpecDedup: generalization and keep-first-per-signature    *)
(* dedup (table.py, the end of the row loop) applied twice                 *)
(***************************************************************************)
\* sig = pattern_signature(ttp_line)
\* if sig and sig not in ttp_patterns: ttp_patterns[sig] = (ttp_line, row)
KeepFirstSignature(ttp_patterns, ttp_line, row) ==
    LET sig == pattern_signature(ttp_line)
    IN  IF sig # <<>> /\ ~DictHas(ttp_patterns, sig)
        THEN DictSet(ttp_patterns, sig, <<ttp_line, row>>)
        ELSE ttp_patterns

\* the lines retained in ttp_patterns, in insertion order
RetainedLines(ttp_patterns) == [i \in 1..Len(ttp_patterns) |-> ttp_patterns[i][2][1]]

RECURSIVE DedupLoop(_, _)
DedupLoop(ttp_patterns, lines) ==
    IF lines = <<>> THEN ttp_patterns
    ELSE DedupLoop(KeepFirstSignature(ttp_patterns, generalize_pattern(Head(lines)), <<>>),
                   Tail(lines))
DedupPass(lines) == RetainedLines(DedupLoop(<<>>, lines))

DedupLinePool ==
    {
      \* '{{A}}  {{B}}   {{C | ORPHRASE}}'
      <<"{","{","A","}","}"," "," ","{","{","B","}","}"," "," "," ","{","{","C"," ","|"," ","O","R","P","H","R","A","S","E","}","}">>,
      \* '{{A}} {{B}} {{C | ORPHRASE}}'
      <<"{","{","A","}","}"," ","{","{","B","}","}"," ","{","{","C"," ","|"," ","O","R","P","H","R","A","S","E","}","}">>,
      \* '  {{A}}    x  {{B}}'
      <<" "," ","{","{","A","}","}"," "," "," "," ","x"," "," ","{","{","B","}","}">>,
      \* 'no placeholders  here'
      <<"n","o"," ","p","l","a","c","e","h","o","l","d","e","r","s"," "," ","h","e","r","e">>,
      \* '{{B}}  {{A}}'
      <<"{","{","B","}","}"," "," ","{","{","A","}","}">>,
      \* '{{N{{X}}}} O  {{Z | ORPHRASE}}'
      <<"{","{","N","{","{","X","}","}","}","}"," ","O"," "," ","{","{","Z"," ","|"," ","O","R","P","H","R","A","S","E","}","}">>
    }
MaxDedupLines == 3

InitDedup ==
    /\ pc = "call"
    /\ IdleSelector
    /\ \E n \in 1..MaxDedupLines : \E lines \in [1..n -> DedupLinePool] :
          call = [lines |-> lines]
    /\ ret = None

DedupFirstPass ==
    /\ pc = "call"
    /\ ret' = [first |-> DedupPass(call.lines), second |-> <<>>]
    /\ pc' = "once"
    /\ UNCHANGED <<call, selector_vars>>

DedupSecondPass ==
    /\ pc = "once"
    /\ ret' = [ret EXCEPT !.second = DedupPass(ret.first)]
    /\ pc' = "done"
    /\ UNCHANGED <<call, selector_vars>>

NextDedup == DedupFirstPass \/ DedupSecondPass

SpecDedup == InitDedup /\ [][NextDedup]_vars

\* C8: signature-based dedup is idempotent: a second pass of generalization
\* and keep-first-per-signature over the retained lines returns exactly the
\* retained lines.
C8_DedupIdempotent ==
    pc = "done" => ret.second = ret.first

\* Witness of C8: the first pass dropped a duplicate and rewrote the
\* whitespace of a kept line, at least two lines were retained, and the second
\* pass has run.
C8_Witness ==
    /\ pc = "done"
    /\ Len(ret.first) >= 2
    /\ Len(ret.first) < Len(call.lines)
    /\ \E i \in 1..Len(call.lines) :
          /\ generalize_pattern(call.lines[i]) # call.lines[i]
          /\ \E j \in 1..Len(ret.first) : ret.first[j] = generalize_pattern(call.lines[i])

(***************************************************************************)
(* core.py: rows_to_dicts, filter_quality_rows                             *)
(***************************************************************************)
\* A raw oracle cell: a str, a list of str (a List value), or anything else
StrCell(s) == [t |-> "str", s |-> s, l |-> <<>>]
ListCell(l) == [t |-> "list", s |-> <<>>, l |-> l]
OtherCell == [t |-> "other", s |-> <<>>, l |-> <<>>]

\* (x for x in v if x)
RECURSIVE NonEmpty(_)
NonEmpty(l) ==
    IF l = <<>> THEN <<>>
    ELSE IF Head(l) # <<>> THEN <<Head(l)>> \o NonEmpty(Tail(l))
    ELSE NonEmpty(Tail(l))

\* The text of a cell before stripping; ok is FALSE for a cell that is not a
\* str after the list conversion.
CellText(v) ==
    IF v.t = "list" THEN [ok |-> TRUE, s |-> Join(NonEmpty(v.l), <<",", " ">>)]
    ELSE IF v.t = "str" THEN [ok |-> TRUE, s |-> v.s]
    ELSE [ok |-> FALSE, s |-> <<>>]

\* for h, v in zip(headers, row): ... row_dict[h] = v.strip()
RECURSIVE RowToDict(_, _, _)
RowToDict(row_dict, hs, row) ==
    IF hs = <<>> \/ row = <<>> THEN row_dict
    ELSE LET c == CellText(Head(row))
         IN  IF c.ok /\ c.s # <<>> /\ Strip(c.s) # <<>>
             THEN RowToDict(DictSet(row_dict, Head(hs), Strip(c.s)), Tail(hs), Tail(row))
             ELSE RowToDict(row_dict, Tail(hs), Tail(row))

RECURSIVE RowsToDicts(_, _)
RowsToDicts(hs, rs) ==
    IF rs = <<>> THEN <<>>
    ELSE LET row_dict == RowToDict(<<>>, hs, Head(rs))
         IN  IF Head(rs) # <<>> /\ row_dict # <<>>
             THEN <<row_dict>> \o RowsToDicts(hs, Tail(rs))
             ELSE RowsToDicts(hs, Tail(rs))
rows_to_dicts(hs, rs) == RowsToDicts(hs, rs)

RECURSIVE FilterRows(_, _, _)
FilterRows(hs, rs, n) ==
    IF rs = <<>> THEN <<>>
    ELSE LET row_dict == RowToDict(<<>>, hs, Head(rs))
         IN  IF Head(rs) # <<>> /\ Len(row_dict) >= n
             THEN <<row_dict>> \o FilterRows(hs, Tail(rs), n)
             ELSE FilterRows(hs, Tail(rs), n)

\* Mutant of filter_quality_rows: every non-empty record is kept, as in
\* rows_to_dicts.
filter_quality_rows_any_record(hs, rs, n) == rows_to_dicts(hs, rs)

\* Mutant of filter_quality_rows: the threshold is one field lower.
filter_quality_rows_one_less(hs, rs, n) ==
    IF hs = <<>> \/ rs = <<>> THEN <<>> ELSE FilterRows(hs, rs, n - 1)

filter_quality_rows(hs, rs, n) ==
    IF hs = <<>> \/ rs = <<>> THEN <<>> ELSE FilterRows(hs, rs, n)

(***************************************************************************)
(* Specification SpecFilter: filter_quality_rows applied to bounded inputs *)
(***************************************************************************)
FilterHeaderNames ==
    <<
      \* 'PORT'
      <<"P","O","R","T">>,
      \* 'NAME'
      <<"N","A","M","E">>,
      \* 'SN'
      <<"S","N">>,
      \* 'STATUS'
      <<"S","T","A","T","U","S">>,
      \* 'DESC'
      <<"D","E","S","C">>,
      \* 'VLAN'
      <<"V","L","A","N">>
    >>
RawRowPool ==
    {
      \* ['1', 'Gi0/1', 'ABC123']
      <<StrCell(<<"1">>), StrCell(<<"G","i","0","/","1">>), StrCell(<<"A","B","C","1","2","3">>)>>,
      \* ['2', '', 'XYZ']
      <<StrCell(<<"2">>), StrCell(<<>>), StrCell(<<"X","Y","Z">>)>>,
      \* [' up ', ['a', 'b'], None, 'x']
      <<StrCell(<<" ","u","p"," ">>), ListCell(<<<<"a">>, <<"b">>>>), OtherCell, StrCell(<<"x">>)>>,
      \* []
      <<>>,
      \* ['  ', ['', ' '], [], 'v']
      <<StrCell(<<" "," ">>), ListCell(<<<<>>, <<" ">>>>), ListCell(<<>>), StrCell(<<"v">>)>>,
      \* [['a ', '', ' b'], '1', '2', '3']
      <<ListCell(<<<<"a"," ">>, <<>>, <<" ","b">>>>), StrCell(<<"1">>), StrCell(<<"2">>), StrCell(<<"3">>)>>,
      \* ['x']
      <<StrCell(<<"x">>)>>,
      \* ['\t', 'a b ', None]
      <<StrCell(<<"	">>), StrCell(<<"a"," ","b"," ">>), OtherCell>>
    }
MaxFilterHeaders == 4
MaxFilterRows == 2
MaxFilterMinCols == 4

InitFilter ==
    /\ pc = "call"
    /\ IdleSelector
    /\ \E h \in 0..MaxFilterHeaders, n \in 0..MaxFilterRows, m \in 0..MaxFilterMinCols :
          \E rs \in [1..n -> RawRowPool] :
              call = [headers |-> SubSeq(FilterHeaderNames, 1, h), rows |-> rs,
                      min_cols |-> m]
    /\ ret = None

FilterCall ==
    /\ pc = "call"
    /\ ret' = filter_quality_rows(call.headers, call.rows, call.min_cols)
    /\ pc' = "done"
    /\ UNCHANGED <<call, selector_vars>>

NextFilter == FilterCall

SpecFilter == InitFilter /\ [][NextFilter]_vars

\* record d holds populated cells of raw row r: each value is the cell's text
\* (a list joined with ", "), stripped
RecordOfRow(d, hs, r) ==
    /\ \A i \in 1..Len(d) :
          \E c \in 1..Len(r) :
              /\ c <= Len(hs)
              /\ hs[c] = d[i][1]
              /\ CellText(r[c]).ok
              /\ d[i][2] = Strip(CellText(r[c]).s)
              /\ r[c].t = "list" => d[i][2] = Strip(Join(NonEmpty(r[c].l), <<",", " ">>))

\* C4: every record returned by filter_quality_rows has at least min_cols
\* populated fields, each value a non-empty trimmed string (a list-valued
\* capture joined with ", ").
C4_QualityRowsPopulated ==
    pc = "done" =>
        \A k \in 1..Len(ret) :
            /\ Len(ret[k]) >= call.min_cols
            /\ \A i \in 1..Len(ret[k]) :
                  /\ ret[k][i][2] # <<>>
                  /\ ~IsSpace(Head(ret[k][i][2]))
                  /\ ~IsSpace(ret[k][i][2][Len(ret[k][i][2])])
            /\ \E r \in 1..Len(call.rows) : RecordOfRow(ret[k], call.headers, call.rows[r])

\* Witness of C4: with a threshold of 3, a row with fewer populated fields
\* was dropped and a kept record holds a joined list value and a value that
\* had to be trimmed.
C4_Witness ==
    /\ pc = "done"
    /\ call.min_cols = 3
    /\ Len(ret) = 1
    /\ Len(call.rows) = 2
    /\ \E i \in 1..Len(ret[1]) : ret[1][i][2] = <<"a", ",", " ", "b">>
    /\ \E i \in 1..Len(ret[1]) : ret[1][i][2] = <<"u", "p">>

(***************************************************************************)
(* Strategy results                                                        *)
(***************************************************************************)
\* A failure reason: the message, with the numbers formatted into it
Err(kind, need, got) == [kind |-> kind, need |-> need, got |-> got]
NoErr == Err("", 0, 0)

GroupOpen(name) == <<"<","g","r","o","u","p"," ","n","a","m","e","=","\"">> \o name \o <<"\"",">">>
GroupClose == <<"<","/","g","r","o","u","p",">">>

\* s.replace(',', '_')
CommasToUnderscores(s) == [i \in 1..Len(s) |-> IF s[i] = "," THEN "_" ELSE s[i]]

(***************************************************************************)
(* table.py: find_source_line, generate_table_template                     *)
(***************************************************************************)
\* values = [v for v in row_values.values() if v and v.strip()]
RECURSIVE SearchValues(_)
SearchValues(row_values) ==
    IF row_values = <<>> THEN <<>>
    ELSE LET v == row_values[1][2]
         IN  IF v # <<>> /\ Strip(v) # <<>>
             THEN <<v>> \o SearchValues(Tail(row_values))
             ELSE SearchValues(Tail(row_values))

\* sum(1 for val in values if val in line)
MatchCount(values, line) == Cardinality({i \in 1..Len(values) : Contains(line, values[i])})

\* The fallback loop: best_match = (count, idx, line), replaced only by a
\* strictly larger count. idx is 0-based; -1 stands for None.
RECURSIVE BestMatch(_, _, _, _)
BestMatch(lines, values, idx, best) ==
    IF idx >= Len(lines) THEN best
    ELSE LET match_count == MatchCount(values, lines[idx + 1])
         IN  BestMatch(lines, values, idx + 1,
                       IF match_count > best.count
                       THEN [count |-> match_count, idx |-> idx, line |-> lines[idx + 1]]
                       ELSE best)

\* index of the first line that contains every value, -1 when there is none
RECURSIVE FirstFullMatch(_, _, _)
FirstFullMatch(lines, values, idx) ==
    IF idx >= Len(lines) THEN -1
    ELSE IF \A k \in 1..Len(values) : Contains(lines[idx + 1], values[k]) THEN idx
    ELSE FirstFullMatch(lines, values, idx + 1)

FallbackMinMatches == 2

NotFound == [found |-> FALSE, idx |-> -1, line |-> <<>>]

find_source_line(lines, row_values) ==
    LET values == SearchValues(row_values)
        first == FirstFullMatch(lines, values, 0)
        best == BestMatch(lines, values, 0, [count |-> 0, idx |-> -1, line |-> <<>>])
    IN  IF values = <<>> THEN NotFound
        ELSE IF first # -1 THEN [found |-> TRUE, idx |-> first, line |-> lines[first + 1]]
        ELSE IF best.idx # -1 /\ best.count >= FallbackMinMatches
        THEN [found |-> TRUE, idx |-> best.idx, line |-> best.line]
        ELSE NotFound

\* Mutant of LineAlreadyUsed: a line claimed by an earlier row is used again.
LineAlreadyUsed_never(used_lines, line_num) == FALSE

\* if line_num in used_lines: continue
LineAlreadyUsed(used_lines, line_num) == line_num \in used_lines

\* The row loop of generate_table_template. st.ttp_patterns and st.used_lines
\* are the locals of the same name; st.built lists <<line_num, row>> for every
\* row that a pattern was built from.
RECURSIVE TableLoop(_, _, _, _)
TableLoop(st, quality_rows, lines, column_analysis) ==
    IF quality_rows = <<>> THEN st
    ELSE LET row == Head(quality_rows)
             rest == Tail(quality_rows)
             result == find_source_line(lines, row)
         IN  IF ~result.found
             THEN TableLoop(st, rest, lines, column_analysis)
             ELSE IF LineAlreadyUsed(st.used_lines, result.idx)
             THEN TableLoop(st, rest, lines, column_analysis)
             ELSE LET ttp_line == generalize_pattern(
                                    substitute_ttp_vars(result.line, row, column_analysis))
                  IN  TableLoop(
                        [ttp_patterns |-> KeepFirstSignature(st.ttp_patterns, ttp_line, row),
                         used_lines |-> st.used_lines \cup {result.idx},
                         built |-> Append(st.built, <<result.idx, row>>)],
                        rest, lines, column_analysis)

\* The text of the table template, as its lines
RECURSIVE TableOutput(_)
TableOutput(ttp_patterns) ==
    IF ttp_patterns = <<>> THEN <<>>
    ELSE <<GroupOpen(Lower(CommasToUnderscores(ttp_patterns[1][1]))),
           ttp_patterns[1][2][1],
           GroupClose>> \o TableOutput(Tail(ttp_patterns))

\* The result also carries the locals quality_rows, ttp_patterns and built.
generate_table_template(hs, rs, lines, n) ==
    LET quality_rows == filter_quality_rows(hs, rs, n)
        st == TableLoop([ttp_patterns |-> <<>>, used_lines |-> {}, built |-> <<>>],
                        quality_rows, lines, analyze_column_patterns(quality_rows))
    IN  IF quality_rows = <<>>
        THEN [ok |-> FALSE, text |-> <<>>,
              err |-> Err("# No quality rows found (need {min_cols} or more columns populated)", n, 0),
              quality_rows |-> quality_rows, ttp_patterns |-> <<>>, built |-> <<>>]
        ELSE IF st.ttp_patterns = <<>>
        THEN [ok |-> FALSE, text |-> <<>>,
              err |-> Err("# ERROR: Could not generate any TTP patterns from parsed data", 0, 0),
              quality_rows |-> quality_rows, ttp_patterns |-> <<>>, built |-> st.built]
        ELSE [ok |-> TRUE, text |-> TableOutput(st.ttp_patterns), err |-> NoErr,
              quality_rows |-> quality_rows, ttp_patterns |-> st.ttp_patterns,
              built |-> st.built]

(***************************************************************************)
(* Ordering of str values (sorted())                                       *)
(***************************************************************************)
\* the printable ASCII characters (all but the backquote), in code order
Ascii == <<" ","!","\"","#","$","%","&","'","(",")","*","+",",","-",".","/","0","1","2","3","4","5","6","7","8","9",":",";","<","=",">","?","@","A","B","C","D","E","F","G","H","I","J","K","L","M","N","O","P","Q","R","S","T","U","V","W","X","Y","Z","[","\\","]","^","_","a","b","c","d","e","f","g","h","i","j","k","l","m","n","o","p","q","r","s","t","u","v","w","x","y","z","{","|","}","~">>
Code(c) == IF c = "\t" THEN 0 ELSE CHOOSE i \in 1..Len(Ascii) : Ascii[i] = c
RECURSIVE StrLess(_, _)
StrLess(a, b) ==
    IF b = <<>> THEN FALSE
    ELSE IF a = <<>> THEN TRUE
    ELSE IF Head(a) = Head(b) THEN StrLess(Tail(a), Tail(b))
    ELSE Code(Head(a)) < Code(Head(b))
RECURSIVE InsertSorted(_, _)
InsertSorted(sorted, x) ==
    IF sorted = <<>> THEN <<x>>
    ELSE IF StrLess(x, Head(sorted)) THEN <<x>> \o sorted
    ELSE <<Head(sorted)>> \o InsertSorted(Tail(sorted), x)
\* sorted(names)
RECURSIVE Sorted(_)
Sorted(names) ==
    IF names = <<>> THEN <<>> ELSE InsertSorted(Sorted(Tail(names)), Head(names))
\* '_'.join(sorted(names)[:n]).lower()
GroupName(names, n) ==
    LET s == Sorted(names)
    IN  Lower(Join(SubSeq(s, 1, IF Len(s) < n THEN Len(s) ELSE n), <<"_">>))

(***************************************************************************)
(* paragraph.py                                                            *)
(***************************************************************************)
\* [idx for idx, line in enumerate(cli_lines) if value in line], ascending
RECURSIVE LinesContaining(_, _, _)
LinesContaining(lines, value, idx) ==
    IF idx >= Len(lines) THEN <<>>
    ELSE IF Contains(lines[idx + 1], value)
         THEN <<idx>> \o LinesContaining(lines, value, idx + 1)
         ELSE LinesContaining(lines, value, idx + 1)

\* a key exists only for a value that is non-blank and found on some line
RECURSIVE map_values_to_lines(_, _)
map_values_to_lines(lines, values) ==
    IF values = <<>> THEN <<>>
    ELSE LET var_name == values[1][1]
             value == values[1][2]
             found == LinesContaining(lines, value, 0)
             rest == map_values_to_lines(lines, Tail(values))
         IN  IF value = <<>> \/ Strip(value) = <<>> \/ found = <<>> THEN rest
             ELSE <<<<var_name, found>>>> \o rest

\* Mutant of LineToValues: a field goes to the last line that holds its value.
RECURSIVE LineToValues_last(_, _, _)
LineToValues_last(line_to_values, value_to_lines, all_values) ==
    IF value_to_lines = <<>> THEN line_to_values
    ELSE IF value_to_lines[1][2] = <<>>
    THEN LineToValues_last(line_to_values, Tail(value_to_lines), all_values)
    ELSE LET var_name == value_to_lines[1][1]
             best_idx == value_to_lines[1][2][Len(value_to_lines[1][2])]
             old == IF DictHas(line_to_values, best_idx)
                    THEN DictGet(line_to_values, best_idx) ELSE <<>>
         IN  LineToValues_last(
                DictSet(line_to_values, best_idx,
                        DictSet(old, var_name, DictGet(all_values, var_name))),
                Tail(value_to_lines), all_values)

\* if line_indices: line_to_values[line_indices[0]][var_name] = all_values[var_name];
\* an entry with no line index is passed over
RECURSIVE LineToValues(_, _, _)
LineToValues(line_to_values, value_to_lines, all_values) ==
    IF value_to_lines = <<>> THEN line_to_values
    ELSE IF value_to_lines[1][2] = <<>>
    THEN LineToValues(line_to_values, Tail(value_to_lines), all_values)
    ELSE LET var_name == value_to_lines[1][1]
             best_idx == value_to_lines[1][2][1]
             old == IF DictHas(line_to_values, best_idx)
                    THEN DictGet(line_to_values, best_idx) ELSE <<>>
         IN  LineToValues(
                DictSet(line_to_values, best_idx,
                        DictSet(old, var_name, DictGet(all_values, var_name))),
                Tail(value_to_lines), all_values)

ParagraphMinRun == 3

\* The template loop over sorted(line_to_values.items())
RECURSIVE ParagraphLines(_, _, _, _)
ParagraphLines(lines, idx, line_to_values, column_analysis) ==
    IF idx >= Len(lines) THEN <<>>
    ELSE IF DictHas(line_to_values, idx)
    THEN <<<<idx, CollapseSpaces(
                    substitute_ttp_vars(lines[idx + 1], DictGet(line_to_values, idx),
                                        column_analysis),
                    ParagraphMinRun, <<" ", " ">>)>>>>
         \o ParagraphLines(lines, idx + 1, line_to_values, column_analysis)
    ELSE ParagraphLines(lines, idx + 1, line_to_values, column_analysis)

\* {line_idx: ttp_line}, in ascending order of line_idx
build_paragraph_line_templates(lines, value_to_lines, all_values, column_analysis) ==
    ParagraphLines(lines, 0, LineToValues(<<>>, value_to_lines, all_values),
                   column_analysis)

\* all_values = {}; for row in row_dicts: all_values.update(row)
RECURSIVE MergeRows(_, _)
MergeRows(all_values, row_dicts) ==
    IF row_dicts = <<>> THEN all_values
    ELSE MergeRows(DictUpdate(all_values, Head(row_dicts)), Tail(row_dicts))

GroupNameFields == 4

ParagraphFail(e, row_dicts, all_values) ==
    [ok |-> FALSE, text |-> <<>>, err |-> e, row_dicts |-> row_dicts,
     all_values |-> all_values, line_templates |-> <<>>]

\* The result also carries the locals row_dicts, all_values and line_templates.
generate_paragraph_template(hs, rs, lines, min_values) ==
    LET row_dicts == rows_to_dicts(hs, rs)
        all_values == MergeRows(<<>>, row_dicts)
        value_to_lines == map_values_to_lines(lines, all_values)
        line_templates == build_paragraph_line_templates(
                            lines, value_to_lines, all_values,
                            analyze_column_patterns(row_dicts))
        var_names == GroupName(DictKeys(all_values), GroupNameFields)
        group_name == IF var_names # <<>> THEN var_names
                      ELSE <<"p","a","r","s","e","d","_","d","a","t","a">>
    IN  IF row_dicts = <<>>
        THEN ParagraphFail(Err("# ERROR: No parsed data from TextFSM", 0, 0),
                           row_dicts, all_values)
        ELSE IF Len(all_values) < min_values
        THEN ParagraphFail(
                Err("# No quality data found (need {min_values} or more values, got {len(all_values)})",
                    min_values, Len(all_values)),
                row_dicts, all_values)
        ELSE IF value_to_lines = <<>>
        THEN ParagraphFail(Err("# ERROR: Could not map any values to source lines", 0, 0),
                           row_dicts, all_values)
        ELSE IF line_templates = <<>>
        THEN ParagraphFail(Err("# ERROR: Could not generate line templates", 0, 0),
                           row_dicts, all_values)
        ELSE [ok |-> TRUE,
              text |-> <<GroupOpen(group_name)>> \o DictValues(line_templates)
                       \o <<GroupClose>>,
              err |-> NoErr, row_dicts |-> row_dicts, all_values |-> all_values,
              line_templates |-> line_templates]

(***************************************************************************)
(* multisection.py                                                         *)
(***************************************************************************)
\* str.split(): the maximal runs of non-whitespace characters
RECURSIVE SplitFrom(_, _)
SplitFrom(s, cur) ==
    IF s = <<>> THEN (IF cur = <<>> THEN <<>> ELSE <<cur>>)
    ELSE IF IsSpace(Head(s))
         THEN (IF cur = <<>> THEN <<>> ELSE <<cur>>) \o SplitFrom(Tail(s), <<>>)
         ELSE SplitFrom(Tail(s), Append(cur, Head(s)))
Split(s) == SplitFrom(s, <<>>)

\* s.startswith(prefix)
StartsWith(s, prefix) == Len(s) >= Len(prefix) /\ SubSeq(s, 1, Len(prefix)) = prefix

KwValue == <<"V","a","l","u","e">>
KwFilldown == <<"F","i","l","l","d","o","w","n">>
OptionKeywords ==
    { KwFilldown,
      <<"R","e","q","u","i","r","e","d">>,
      <<"L","i","s","t">>,
      <<"F","i","l","l","u","p">> }

MinValueParts == 3

\* for i, part in enumerate(parts[1:], 1): the first part that is neither an
\* option keyword nor the start of the regex; <<>> when there is none
RECURSIVE FirstNamePart(_)
FirstNamePart(parts) ==
    IF parts = <<>> THEN <<>>
    ELSE IF Head(parts) \notin OptionKeywords /\ ~StartsWith(Head(parts), <<"(">>)
         THEN <<Head(parts)>>
         ELSE FirstNamePart(Tail(parts))

\* is_filldown = 'Filldown' in parts
IsFilldown(parts) == \E i \in 1..Len(parts) : parts[i] = KwFilldown

\* The loop over textfsm_template.splitlines(); want_filldown selects which
\* of the two lists is collected.
RECURSIVE ParseValues(_, _)
ParseValues(template_lines, want_filldown) ==
    IF template_lines = <<>> THEN <<>>
    ELSE LET line == Strip(Head(template_lines))
             parts == Split(line)
             rest == ParseValues(Tail(template_lines), want_filldown)
         IN  IF StartsWith(line, KwValue) /\ Len(parts) >= MinValueParts
                /\ IsFilldown(parts) = want_filldown
             THEN FirstNamePart(Tail(parts)) \o rest
             ELSE rest

\* parse_textfsm_filldown_values returns (filldown_vars, regular_vars)
parse_textfsm_filldown_values(template_lines) ==
    [filldown_vars |-> ParseValues(template_lines, TRUE),
     regular_vars |-> ParseValues(template_lines, FALSE)]

\* {var: row[var] for var in names if var in row and row[var]}
RECURSIVE PickInOrder(_, _, _)
PickInOrder(picked, names, row) ==
    IF names = <<>> THEN picked
    ELSE LET var == Head(names)
         IN  IF DictHas(row, var) /\ DictGet(row, var) # <<>>
             THEN PickInOrder(DictSet(picked, var, DictGet(row, var)), Tail(names), row)
             ELSE PickInOrder(picked, Tail(names), row)

NoRecord == [filldown_values |-> <<>>, regular_values |-> <<>>]

\* The first row with filldown values and at least min_cols regular values
RECURSIVE SelectRecord(_, _, _, _)
SelectRecord(row_dicts, filldown_vars, regular_vars, n) ==
    IF row_dicts = <<>> THEN NoRecord
    ELSE LET row_filldown == PickInOrder(<<>>, filldown_vars, Head(row_dicts))
             row_regular == PickInOrder(<<>>, regular_vars, Head(row_dicts))
         IN  IF row_filldown # <<>> /\ row_regular # <<>> /\ Len(row_regular) >= n
             THEN [filldown_values |-> row_filldown, regular_values |-> row_regular]
             ELSE SelectRecord(Tail(row_dicts), filldown_vars, regular_vars, n)

\* sum(1 for v in values.values() if v and len(v) > 1 and v in line)
LongValuesIn(values, line) ==
    Cardinality({i \in 1..Len(values) :
                    Len(values[i][2]) > 1 /\ Contains(line, values[i][2])})

\* {k: v for k, v in values.items() if v and v in line}
RECURSIVE ValuesIn(_, _)
ValuesIn(values, line) ==
    IF values = <<>> THEN <<>>
    ELSE IF values[1][2] # <<>> /\ Contains(line, values[1][2])
         THEN <<values[1]>> \o ValuesIn(Tail(values), line)
         ELSE ValuesIn(Tail(values), line)

MaxRegularInHeader == 1

NoLine == [found |-> FALSE, idx |-> -1, line |-> <<>>, values |-> <<>>]

\* The header search: the first line with a filldown value of two or more
\* characters and at most one such regular value
RECURSIVE FindHeaderLine(_, _, _, _)
FindHeaderLine(lines, idx, filldown_values, regular_values) ==
    IF idx >= Len(lines) THEN NoLine
    ELSE LET line == lines[idx + 1]
             header_vars_in_line == ValuesIn(filldown_values, line)
         IN  IF LongValuesIn(filldown_values, line) >= 1
                /\ LongValuesIn(regular_values, line) <= MaxRegularInHeader
                /\ header_vars_in_line # <<>>
             THEN [found |-> TRUE, idx |-> idx, line |-> line,
                   values |-> header_vars_in_line]
             ELSE FindHeaderLine(lines, idx + 1, filldown_values, regular_values)

\* the regex \b at 0-based position p of line
WordBoundary(line, p) ==
    (p >= 1 /\ IsWordChar(line[p])) # (p < Len(line) /\ IsWordChar(line[p + 1]))

\* re.search(r'\b' + re.escape(v) + r'\b', line) for a one-character v
BoundedSearch(line, v) ==
    \E i \in 1..Len(line) :
        line[i] = v[1] /\ WordBoundary(line, i - 1) /\ WordBoundary(line, i)

\* values_in_line of the data search
RECURSIVE DataValuesIn(_, _)
DataValuesIn(regular_values, line) ==
    IF regular_values = <<>> THEN <<>>
    ELSE LET v == regular_values[1][2]
             rest == DataValuesIn(Tail(regular_values), line)
         IN  IF Len(v) > 1 /\ Contains(line, v) THEN <<regular_values[1]>> \o rest
             ELSE IF Len(v) = 1 /\ BoundedSearch(line, v) THEN <<regular_values[1]>> \o rest
             ELSE rest

\* if idx == header_idx: continue
SkipHeaderLine(idx, header_idx) == idx = header_idx

\* The data search: the first line other than the header line that holds at
\* least min_cols regular values
RECURSIVE FindDataLine(_, _, _, _, _)
FindDataLine(lines, idx, header_idx, regular_values, n) ==
    IF idx >= Len(lines) THEN NoLine
    ELSE LET line == lines[idx + 1]
             values_in_line == DataValuesIn(regular_values, line)
         IN  IF SkipHeaderLine(idx, header_idx)
             THEN FindDataLine(lines, idx + 1, header_idx, regular_values, n)
             ELSE IF Len(values_in_line) >= n
             THEN [found |-> TRUE, idx |-> idx, line |-> line, values |-> values_in_line]
             ELSE FindDataLine(lines, idx + 1, header_idx, regular_values, n)

HeaderGroupFields == 3

MultiSectionFail(e, header_idx) ==
    [ok |-> FALSE, text |-> <<>>, err |-> e, header_idx |-> header_idx,
     data_idx |-> -1, filldown_values |-> <<>>, regular_values |-> <<>>]

\* The result also carries the indices of the two chosen lines and the
\* values of the chosen record.
generate_multisection_template(hs, rs, lines, template_lines, n) ==
    LET parsed == parse_textfsm_filldown_values(template_lines)
        filldown_vars == parsed.filldown_vars
        regular_vars == parsed.regular_vars
        row_dicts == rows_to_dicts(hs, rs)
        record == SelectRecord(row_dicts, filldown_vars, regular_vars, n)
        filldown_values == record.filldown_values
        regular_values == record.regular_values
        header_line == FindHeaderLine(lines, 0, filldown_values, regular_values)
        data_line == FindDataLine(lines, 0, header_line.idx, regular_values, n)
        column_analysis == analyze_column_patterns(row_dicts)
        header_ttp == substitute_ttp_vars(header_line.line, header_line.values,
                                          column_analysis)
        data_ttp == generalize_pattern(
                        substitute_ttp_vars(data_line.line, data_line.values,
                                            column_analysis))
        header_group == GroupName(filldown_vars, HeaderGroupFields)
        data_group == GroupName(DictKeys(data_line.values), HeaderGroupFields)
    IN  IF filldown_vars = <<>>
        THEN MultiSectionFail(
                Err("# No Filldown values found - not multi-section data", 0, 0), -1)
        ELSE IF row_dicts = <<>>
        THEN MultiSectionFail(Err("# ERROR: No parsed data from TextFSM", 0, 0), -1)
        ELSE IF filldown_values = <<>>
        THEN MultiSectionFail(
                Err("# No filldown values captured - not multi-section data", 0, 0), -1)
        ELSE IF Len(regular_values) < n
        THEN MultiSectionFail(
                Err("# Insufficient regular values (need {min_cols}, got {len(regular_values)})",
                    n, Len(regular_values)), -1)
        ELSE IF ~header_line.found
        THEN MultiSectionFail(Err("# Could not identify section header line", 0, 0), -1)
        ELSE IF ~data_line.found
        THEN MultiSectionFail(Err("# Could not identify data row line", 0, 0),
                              header_line.idx)
        ELSE [ok |-> TRUE,
              text |-> <<GroupOpen(header_group), header_ttp, GroupOpen(data_group),
                         data_ttp, GroupClose, GroupClose>>,
              err |-> NoErr, header_idx |-> header_line.idx, data_idx |-> data_line.idx,
              filldown_values |-> filldown_values, regular_values |-> regular_values]

(***************************************************************************)
(* converter.py: generate_ttp_template                                     *)
(***************************************************************************)
HeuristicMaxRows == 2
HeuristicMinValues == 4
ParagraphMinValues == 3

Max(a, b) == IF a >= b THEN a ELSE b

\* lines_with_values: the index of the first line holding each merged value
LinesWithValues(all_values, lines) ==
    {LinesContaining(lines, all_values[i][2], 0)[1] :
        i \in {j \in 1..Len(all_values) :
                 LinesContaining(lines, all_values[j][2], 0) # <<>>}}

\* Mutant of SkipTableHeuristic: counts the values found on some line
\* instead of the distinct lines they are first found on.
SkipTableHeuristic_count_values(hs, rs, lines) ==
    LET row_dicts == rows_to_dicts(hs, rs)
        all_values == MergeRows(<<>>, row_dicts)
    IN  /\ Len(row_dicts) <= HeuristicMaxRows
        /\ Len(all_values) >= HeuristicMinValues
        /\ 2 * Cardinality({j \in 1..Len(all_values) :
                              LinesContaining(lines, all_values[j][2], 0) # <<>>})
             >= Len(all_values)

\* Mutant of SkipTableHeuristic: three records still count as sparse.
SkipTableHeuristic_three_rows(hs, rs, lines) ==
    LET row_dicts == rows_to_dicts(hs, rs)
        all_values == MergeRows(<<>>, row_dicts)
    IN  /\ Len(row_dicts) <= HeuristicMaxRows + 1
        /\ Len(all_values) >= HeuristicMinValues
        /\ 2 * Cardinality(LinesWithValues(all_values, lines)) >= Len(all_values)

\* num_rows <= 2 and total_values >= 4 and
\* len(lines_with_values) >= total_values * 0.5
SkipTableHeuristic(hs, rs, lines) ==
    LET row_dicts == rows_to_dicts(hs, rs)
        all_values == MergeRows(<<>>, row_dicts)
    IN  /\ Len(row_dicts) <= HeuristicMaxRows
        /\ Len(all_values) >= HeuristicMinValues
        /\ 2 * Cardinality(LinesWithValues(all_values, lines)) >= Len(all_values)

\* What generate_ttp_template returns: the template text of a strategy that
\* succeeded, or an error string
Returned(result) == [ok |-> result.ok, text |-> result.text, err |-> result.err]
ReturnedError(kind) == [ok |-> FALSE, text |-> <<>>, err |-> Err(kind, 0, 0)]

\* Mutant of FinalError: the last failure (Paragraph's) is returned.
FinalError_paragraph(table, para) == Returned(para)

\* All failed - return the table error
FinalError(table, para) == Returned(table)

(***************************************************************************)
(* Specification Spec: one call of generate_ttp_template, one step per     *)
(* strategy attempt. The oracle's output (headers, rows) is drawn from     *)
(* bounded pools.                                                          *)
(***************************************************************************)
SelectorHeaders ==
    <<
      \* 'INTF'
      <<"I","N","T","F">>,
      \* 'PORT'
      <<"P","O","R","T">>,
      \* 'NAME'
      <<"N","A","M","E">>,
      \* 'SN'
      <<"S","N">>
    >>

\* Oracle grammars, as their lines. SN is a List value in each of them, so
\* its cells are lists.
TemplatePool ==
    {
      \* ['Value INTF (\\S+)', 'Value PORT (\\d+)', 'Value NAME (\\S+)', 'Value List SN (.+)', '', 'Start', '  ^${INTF} -> Record']
      <<<<"V","a","l","u","e"," ","I","N","T","F"," ","(","\\","S","+",")">>,
        <<"V","a","l","u","e"," ","P","O","R","T"," ","(","\\","d","+",")">>,
        <<"V","a","l","u","e"," ","N","A","M","E"," ","(","\\","S","+",")">>,
        <<"V","a","l","u","e"," ","L","i","s","t"," ","S","N"," ","(",".","+",")">>,
        <<>>,
        <<"S","t","a","r","t">>,
        <<" "," ","^","$","{","I","N","T","F","}"," ","-",">"," ","R","e","c","o","r","d">>>>,
      \* ['Value Filldown INTF (\\S+)', 'Value PORT (\\d+)', 'Value NAME (\\S+)', 'Value List SN (.+)', '', 'Start', '  ^${INTF} -> Record']
      <<<<"V","a","l","u","e"," ","F","i","l","l","d","o","w","n"," ","I","N","T","F"," ","(","\\","S","+",")">>,
        <<"V","a","l","u","e"," ","P","O","R","T"," ","(","\\","d","+",")">>,
        <<"V","a","l","u","e"," ","N","A","M","E"," ","(","\\","S","+",")">>,
        <<"V","a","l","u","e"," ","L","i","s","t"," ","S","N"," ","(",".","+",")">>,
        <<>>,
        <<"S","t","a","r","t">>,
        <<" "," ","^","$","{","I","N","T","F","}"," ","-",">"," ","R","e","c","o","r","d">>>>,
      \* ['Value Filldown,Required INTF (\\S+)', 'Value PORT (\\d+)', 'Value NAME (\\S+)', 'Value List SN (.+)', '', 'Start', '  ^${INTF} -> Record']
      <<<<"V","a","l","u","e"," ","F","i","l","l","d","o","w","n",",","R","e","q","u","i","r","e","d"," ","I","N","T","F"," ","(","\\","S","+",")">>,
        <<"V","a","l","u","e"," ","P","O","R","T"," ","(","\\","d","+",")">>,
        <<"V","a","l","u","e"," ","N","A","M","E"," ","(","\\","S","+",")">>,
        <<"V","a","l","u","e"," ","L","i","s","t"," ","S","N"," ","(",".","+",")">>,
        <<>>,
        <<"S","t","a","r","t">>,
        <<" "," ","^","$","{","I","N","T","F","}"," ","-",">"," ","R","e","c","o","r","d">>>>
    }

RowPool ==
    {
      \* ['eth0', '1', 'Gi0/1', ['ABC123']]
      <<StrCell(<<"e","t","h","0">>), StrCell(<<"1">>), StrCell(<<"G","i","0","/","1">>), ListCell(<<<<"A","B","C","1","2","3">>>>)>>,
      \* ['eth0', '2', 'Gi0/2', ['XYZ789']]
      <<StrCell(<<"e","t","h","0">>), StrCell(<<"2">>), StrCell(<<"G","i","0","/","2">>), ListCell(<<<<"X","Y","Z","7","8","9">>>>)>>,
      \* ['eth1', '', '', []]
      <<StrCell(<<"e","t","h","1">>), StrCell(<<>>), StrCell(<<>>), ListCell(<<>>)>>,
      \* ['', '', 'Gi0/2', ['to', 'core']]
      <<StrCell(<<>>), StrCell(<<>>), StrCell(<<"G","i","0","/","2">>), ListCell(<<<<"t","o">>, <<"c","o","r","e">>>>)>>,
      \* ['eth0', '7', 'Gi0/7', ['E']]
      <<StrCell(<<"e","t","h","0">>), StrCell(<<"7">>), StrCell(<<"G","i","0","/","7">>), ListCell(<<<<"E">>>>)>>
    }

SamplePool ==
    {
      \* ['eth0 is up', '1  Gi0/1  ABC123', '2  Gi0/2  XYZ789']
      <<<<"e","t","h","0"," ","i","s"," ","u","p">>,
        <<"1"," "," ","G","i","0","/","1"," "," ","A","B","C","1","2","3">>,
        <<"2"," "," ","G","i","0","/","2"," "," ","X","Y","Z","7","8","9">>>>,
      \* ['Port 1', 'Name Gi0/1 up', '  Serial   ABC123', 'Intf eth0 eth1']
      <<<<"P","o","r","t"," ","1">>,
        <<"N","a","m","e"," ","G","i","0","/","1"," ","u","p">>,
        <<" "," ","S","e","r","i","a","l"," "," "," ","A","B","C","1","2","3">>,
        <<"I","n","t","f"," ","e","t","h","0"," ","e","t","h","1">>>>,
      \* ['eth0 7 Gi0/7 E', 'eth0 1  Gi0/1  ABC123']
      <<<<"e","t","h","0"," ","7"," ","G","i","0","/","7"," ","E">>,
        <<"e","t","h","0"," ","1"," "," ","G","i","0","/","1"," "," ","A","B","C","1","2","3">>>>,
      \* ['nothing here', '']
      <<<<"n","o","t","h","i","n","g"," ","h","e","r","e">>,
        <<>>>>,
      \* ['eth0 1 Gi0/1 ABC123 2 Gi0/2 XYZ789']
      <<<<"e","t","h","0"," ","1"," ","G","i","0","/","1"," ","A","B","C","1","2","3"," ","2"," ","G","i","0","/","2"," ","X","Y","Z","7","8","9">>>>,
      \* ['eth0', '   2    Gi0/2   to, core']
      <<<<"e","t","h","0">>,
        <<" "," "," ","2"," "," "," "," ","G","i","0","/","2"," "," "," ","t","o",","," ","c","o","r","e">>>>
    }

MaxRows == 2

\* oracle outputs of three rows, more than the heuristic takes as sparse
LongRowsPool ==
    {
      \* [['eth0', '1', 'Gi0/1', ['ABC123']], ['eth0', '2', 'Gi0/2', ['XYZ789']], ['eth0', '7', 'Gi0/7', ['E']]]
      <<<<StrCell(<<"e","t","h","0">>), StrCell(<<"1">>), StrCell(<<"G","i","0","/","1">>), ListCell(<<<<"A","B","C","1","2","3">>>>)>>,
        <<StrCell(<<"e","t","h","0">>), StrCell(<<"2">>), StrCell(<<"G","i","0","/","2">>), ListCell(<<<<"X","Y","Z","7","8","9">>>>)>>,
        <<StrCell(<<"e","t","h","0">>), StrCell(<<"7">>), StrCell(<<"G","i","0","/","7">>), ListCell(<<<<"E">>>>)>>>>,
      \* [['eth1', '', '', []], ['', '', 'Gi0/2', ['to', 'core']], ['eth0', '1', 'Gi0/1', ['ABC123']]]
      <<<<StrCell(<<"e","t","h","1">>), StrCell(<<>>), StrCell(<<>>), ListCell(<<>>)>>,
        <<StrCell(<<>>), StrCell(<<>>), StrCell(<<"G","i","0","/","2">>), ListCell(<<<<"t","o">>, <<"c","o","r","e">>>>)>>,
        <<StrCell(<<"e","t","h","0">>), StrCell(<<"1">>), StrCell(<<"G","i","0","/","1">>), ListCell(<<<<"A","B","C","1","2","3">>>>)>>>>,
      \* [['eth0', '1', 'Gi0/1', ['ABC123']], ['eth1', '', '', []], ['', '', 'Gi0/2', ['to', 'core']]]
      <<<<StrCell(<<"e","t","h","0">>), StrCell(<<"1">>), StrCell(<<"G","i","0","/","1">>), ListCell(<<<<"A","B","C","1","2","3">>>>)>>,
        <<StrCell(<<"e","t","h","1">>), StrCell(<<>>), StrCell(<<>>), ListCell(<<>>)>>,
        <<StrCell(<<>>), StrCell(<<>>), StrCell(<<"G","i","0","/","2">>), ListCell(<<<<"t","o">>, <<"c","o","r","e">>>>)>>>>,
      \* [['eth0', '7', 'Gi0/7', ['E']], ['eth0', '1', 'Gi0/1', ['ABC123']], ['eth0', '2', 'Gi0/2', ['XYZ789']]]
      <<<<StrCell(<<"e","t","h","0">>), StrCell(<<"7">>), StrCell(<<"G","i","0","/","7">>), ListCell(<<<<"E">>>>)>>,
        <<StrCell(<<"e","t","h","0">>), StrCell(<<"1">>), StrCell(<<"G","i","0","/","1">>), ListCell(<<<<"A","B","C","1","2","3">>>>)>>,
        <<StrCell(<<"e","t","h","0">>), StrCell(<<"2">>), StrCell(<<"G","i","0","/","2">>), ListCell(<<<<"X","Y","Z","7","8","9">>>>)>>>>
    }

MinMinCols == 2
MaxMinCols == 5

Init ==
    /\ pc = "start"
    /\ template_content \in TemplatePool \cup {<<>>}
    /\ headers = IF template_content = <<>> THEN <<>> ELSE SelectorHeaders
    /\ \/ \E n \in 0..MaxRows : rows \in [1..n -> RowPool]
       \/ rows \in LongRowsPool
    /\ headers = <<>> => rows = <<>>
    /\ cli_lines \in SamplePool
    /\ min_cols \in MinMinCols..MaxMinCols
    /\ attempted = <<>>
    /\ ms_result = None
    /\ table_result = None
    /\ para_result = None
    /\ returned = None
    /\ call = None
    /\ ret = None

inputs == <<template_content, headers, rows, cli_lines, min_cols, call, ret>>

\* if not headers: return "# ERROR: No headers found in TextFSM template"
ReturnNoHeaders ==
    /\ pc = "start"
    /\ headers = <<>>
    /\ returned' = ReturnedError("# ERROR: No headers found in TextFSM template")
    /\ pc' = "done"
    /\ UNCHANGED <<inputs, attempted, ms_result, table_result, para_result>>

\* if not rows: return "# ERROR: TextFSM produced no parsed rows"
ReturnNoRows ==
    /\ pc = "start"
    /\ headers # <<>>
    /\ rows = <<>>
    /\ returned' = ReturnedError("# ERROR: TextFSM produced no parsed rows")
    /\ pc' = "done"
    /\ UNCHANGED <<inputs, attempted, ms_result, table_result, para_result>>

\* if filldown_vars: generate_multisection_template(...); return on success
TryMultiSection ==
    /\ pc = "start"
    /\ headers # <<>>
    /\ rows # <<>>
    /\ parse_textfsm_filldown_values(template_content).filldown_vars # <<>>
    /\ LET result == generate_multisection_template(headers, rows, cli_lines,
                                                    template_content, min_cols)
       IN  /\ ms_result' = result
           /\ attempted' = Append(attempted, "MultiSection")
           /\ IF result.ok
              THEN returned' = Returned(result) /\ pc' = "done"
              ELSE returned' = returned /\ pc' = "heuristic"
    /\ UNCHANGED <<inputs, table_result, para_result>>

SkipMultiSection ==
    /\ pc = "start"
    /\ headers # <<>>
    /\ rows # <<>>
    /\ parse_textfsm_filldown_values(template_content).filldown_vars = <<>>
    /\ pc' = "heuristic"
    /\ UNCHANGED <<inputs, attempted, ms_result, table_result, para_result, returned>>

\* Skip table, go straight to paragraph
ParagraphFirst ==
    /\ pc = "heuristic"
    /\ SkipTableHeuristic(headers, rows, cli_lines)
    /\ LET result == generate_paragraph_template(headers, rows, cli_lines,
                                                 Max(ParagraphMinValues, min_cols))
       IN  /\ para_result' = result
           /\ attempted' = Append(attempted, "Paragraph")
           /\ IF result.ok
              THEN returned' = Returned(result) /\ pc' = "done"
              ELSE returned' = returned /\ pc' = "table"
    /\ UNCHANGED <<inputs, ms_result, table_result>>

NoShortcut ==
    /\ pc = "heuristic"
    /\ ~SkipTableHeuristic(headers, rows, cli_lines)
    /\ pc' = "table"
    /\ UNCHANGED <<inputs, attempted, ms_result, table_result, para_result, returned>>

\* success, result = generate_table_template(...); return on success
TryTable ==
    /\ pc = "table"
    /\ LET result == generate_table_template(headers, rows, cli_lines, min_cols)
       IN  /\ table_result' = result
           /\ attempted' = Append(attempted, "Table")
           /\ IF result.ok
              THEN returned' = Returned(result) /\ pc' = "done"
              ELSE returned' = returned /\ pc' = "fallback"
    /\ UNCHANGED <<inputs, ms_result, para_result>>

\* Table failed - try paragraph parsing as fallback
FallbackParagraph ==
    /\ pc = "fallback"
    /\ LET result == generate_paragraph_template(headers, rows, cli_lines,
                                                 Max(ParagraphMinValues, min_cols))
       IN  /\ para_result' = result
           /\ attempted' = Append(attempted, "Paragraph")
           /\ IF result.ok
              THEN returned' = Returned(result) /\ pc' = "done"
              ELSE returned' = returned /\ pc' = "failed"
    /\ UNCHANGED <<inputs, ms_result, table_result>>

\* return result
ReturnTableError ==
    /\ pc = "failed"
    /\ returned' = FinalError(table_result, para_result)
    /\ pc' = "done"
    /\ UNCHANGED <<inputs, attempted, ms_result, table_result, para_result>>

Next ==
    \/ ReturnNoHeaders
    \/ ReturnNoRows
    \/ TryMultiSection
    \/ SkipMultiSection
    \/ ParagraphFirst
    \/ NoShortcut
    \/ TryTable
    \/ FallbackParagraph
    \/ ReturnTableError

Spec == Init /\ [][Next]_vars

(***************************************************************************)
(* Properties of Spec                                                      *)
(***************************************************************************)
\* the call returned after the oracle gave non-empty headers and rows
Finished == pc = "done" /\ headers # <<>> /\ rows # <<>>

MultiSectionSucceeded == ms_result # None /\ ms_result.ok

\* the strategies attempted after MultiSection
AfterMultiSection ==
    IF attempted # <<>> /\ attempted[1] = "MultiSection" THEN Tail(attempted)
    ELSE attempted

\* s.split(sep) for a one-character sep
RECURSIVE SplitOnFrom(_, _, _)
SplitOnFrom(s, sep, cur) ==
    IF s = <<>> THEN <<cur>>
    ELSE IF Head(s) = sep THEN <<cur>> \o SplitOnFrom(Tail(s), sep, <<>>)
    ELSE SplitOnFrom(Tail(s), sep, Append(cur, Head(s)))

\* A grammar declares a Filldown value when one of its Value lines carries
\* the option: "Value OPTION[,OPTION...] NAME (regex)".
DeclaresFilldown(template_lines) ==
    \E i \in 1..Len(template_lines) :
        LET parts == Split(template_lines[i])
        IN  /\ Len(parts) >= 3
            /\ parts[1] = KwValue
            /\ ~StartsWith(parts[3], <<"(">>)
            /\ KwFilldown \in Range(SplitOnFrom(parts[2], ",", <<>>))

\* C1: MultiSection is attempted, before any other strategy, exactly when the
\* grammar declares a Filldown value; when it succeeds its template is
\* returned and nothing else runs; when it fails another strategy runs and
\* the failure returned is not MultiSection's.
C1_MultiSectionFirstIffFilldownDeclared ==
    Finished =>
        /\ (attempted # <<>> /\ attempted[1] = "MultiSection")
              <=> DeclaresFilldown(template_content)
        /\ \A i \in 2..Len(attempted) : attempted[i] # "MultiSection"
        /\ MultiSectionSucceeded =>
              attempted = <<"MultiSection">> /\ returned = Returned(ms_result)
        /\ (ms_result # None /\ ~ms_result.ok) =>
              Len(attempted) >= 2 /\ returned.err # ms_result.err

\* the 0-based indices of the lines on which a value of the merged record is
\* first found
FirstLinesOf(all_values, lines) ==
    {i - 1 : i \in {k \in 1..Len(lines) :
        \E j \in 1..Len(all_values) :
            /\ Contains(lines[k], all_values[j][2])
            /\ \A m \in 1..(k - 1) : ~Contains(lines[m], all_values[j][2])}}

ValuesFound(all_values, lines) ==
    {j \in 1..Len(all_values) :
        \E k \in 1..Len(lines) : Contains(lines[k], all_values[j][2])}

\* C2 as stated: at most 2 quality rows with at least 4 distinct fields, half
\* of whose values are found on some line, make the selector skip Table and
\* go to Paragraph.
C2_SparseQualityRowsSkipTable ==
    LET quality_rows == filter_quality_rows(headers, rows, min_cols)
        all_values == MergeRows(<<>>, quality_rows)
    IN  (/\ Finished
         /\ Len(quality_rows) <= 2
         /\ Len(all_values) >= 4
         /\ 2 * Cardinality(ValuesFound(all_values, cli_lines)) >= Len(all_values))
        => /\ "Table" \notin Range(attempted)
           /\ "Paragraph" \in Range(attempted)

\* at most 2 non-empty records with at least 4 distinct fields, first found
\* on at least half as many distinct lines
SparseRecords ==
    LET row_dicts == rows_to_dicts(headers, rows)
        all_values == MergeRows(<<>>, row_dicts)
    IN  /\ Len(row_dicts) <= 2
        /\ Len(all_values) >= 4
        /\ 2 * Cardinality(FirstLinesOf(all_values, cli_lines)) >= Len(all_values)

\* C2, amended: unless MultiSection succeeded, Paragraph is attempted before
\* Table exactly when the non-empty records are sparse (at most 2, at least 4
\* distinct fields, first found on at least half as many distinct lines), and
\* Table is then attempted only after that Paragraph attempt failed.
C2_ParagraphFirstWhenSparse ==
    (Finished /\ ~MultiSectionSucceeded) =>
        /\ SparseRecords <=> AfterMultiSection[1] = "Paragraph"
        /\ ~SparseRecords => AfterMultiSection[1] = "Table"
        /\ SparseRecords =>
              \/ AfterMultiSection = <<"Paragraph">> /\ returned = Returned(para_result)
                    /\ returned.ok
              \/ Len(AfterMultiSection) >= 2 /\ AfterMultiSection[2] = "Table"
                    /\ ~para_result.ok

\* Paragraph was attempted first, succeeded, and Table never ran
C2_Witness ==
    /\ Finished
    /\ SparseRecords
    /\ attempted = <<"Paragraph">>
    /\ returned.ok

\* three non-empty records with at least 4 distinct fields, first found on
\* at least half as many distinct lines: Table is attempted first
ThreeRecordsTableFirst ==
    LET row_dicts == rows_to_dicts(headers, rows)
        all_values == MergeRows(<<>>, row_dicts)
    IN  /\ Finished
        /\ ~MultiSectionSucceeded
        /\ Len(row_dicts) = 3
        /\ Len(all_values) >= 4
        /\ 2 * Cardinality(FirstLinesOf(all_values, cli_lines)) >= Len(all_values)
        /\ AfterMultiSection[1] = "Table"

TableErrorKinds ==
    {"# No quality rows found (need {min_cols} or more columns populated)",
     "# ERROR: Could not generate any TTP patterns from parsed data"}

\* C3: when every attempted strategy failed, the error returned is the Table
\* strategy's failure reason.
C3_TableErrorReturned ==
    (Finished /\ ~returned.ok) =>
        /\ table_result # None
        /\ returned.err = table_result.err
        /\ returned.err.kind \in TableErrorKinds

\* MultiSection, Table and Paragraph all ran and failed, with different
\* reasons
C3_Witness ==
    /\ Finished
    /\ ~returned.ok
    /\ "MultiSection" \in Range(attempted)
    /\ "Paragraph" \in Range(attempted)
    /\ ms_result.err # table_result.err
    /\ para_result.err # table_result.err

\* row_dict is one of the quality records
FromQualityRow(field) ==
    \E i \in 1..Len(filter_quality_rows(headers, rows, min_cols)) :
        field \in Range(filter_quality_rows(headers, rows, min_cols)[i])

\* C5 as stated: no strategy uses a value of a record that has fewer than
\* min_cols populated fields.
C5_OnlyQualityValuesUsed ==
    /\ table_result # None =>
          \A i \in 1..Len(table_result.built) :
              Len(table_result.built[i][2]) >= min_cols
    /\ para_result # None =>
          \A i \in 1..Len(para_result.all_values) :
              FromQualityRow(para_result.all_values[i])
    /\ MultiSectionSucceeded =>
          \A i \in 1..Len(ms_result.regular_values) :
              FromQualityRow(ms_result.regular_values[i])

\* C5, amended: the Table strategy profiles, localizes and builds patterns
\* only from records that have at least min_cols populated fields.
C5_TableUsesQualityRowsOnly ==
    table_result # None =>
        /\ \A i \in 1..Len(table_result.quality_rows) :
              Len(table_result.quality_rows[i]) >= min_cols
        /\ \A i \in 1..Len(table_result.built) :
              /\ Len(table_result.built[i][2]) >= min_cols
              /\ table_result.built[i][2] \in Range(table_result.quality_rows)
        /\ \A i \in 1..Len(table_result.ttp_patterns) :
              Len(table_result.ttp_patterns[i][2][2]) >= min_cols

\* Table built a pattern while the oracle had also returned a record with
\* fewer than min_cols fields
C5_Witness ==
    /\ table_result # None
    /\ table_result.ok
    /\ \E i \in 1..Len(rows_to_dicts(headers, rows)) :
          Len(rows_to_dicts(headers, rows)[i]) < min_cols

\* every quality row is found on a line holding all of its values, and no
\* two of them on the same line
EachOnItsOwnLine(quality_rows) ==
    /\ \A i \in 1..Len(quality_rows) :
          /\ find_source_line(cli_lines, quality_rows[i]).found
          /\ \A k \in 1..Len(quality_rows[i]) :
                Contains(find_source_line(cli_lines, quality_rows[i]).line,
                         quality_rows[i][k][2])
    /\ \A i, j \in 1..Len(quality_rows) :
          i # j => find_source_line(cli_lines, quality_rows[i]).idx
                   # find_source_line(cli_lines, quality_rows[j]).idx

\* C9: quality rows with the same fields in the same order, each on its own
\* line, give exactly one pattern, built from the first row, whose signature
\* is the ordered list of the field names.
C9_OnePatternPerFieldList ==
    (/\ table_result # None
     /\ Len(table_result.quality_rows) >= 2
     /\ \A i \in 1..Len(table_result.quality_rows) :
           DictKeys(table_result.quality_rows[i]) = DictKeys(table_result.quality_rows[1])
     /\ EachOnItsOwnLine(table_result.quality_rows))
    => /\ Len(table_result.ttp_patterns) = 1
       /\ table_result.ttp_patterns[1][1]
             = Join(DictKeys(table_result.quality_rows[1]), <<",">>)
       /\ table_result.ttp_patterns[1][2][2] = table_result.quality_rows[1]

\* C10: each line index is used for at most one pattern: no two records of a
\* Table pass are built from the same line, and the header line and the data
\* line of MultiSection differ.
C10_LineClaimedOnce ==
    /\ table_result # None =>
          \A i, j \in 1..Len(table_result.built) :
              i # j => table_result.built[i][1] # table_result.built[j][1]
    /\ MultiSectionSucceeded => ms_result.header_idx # ms_result.data_idx

\* a Table pass in which a record was skipped because its line had already
\* been claimed by an earlier record
C10_Witness ==
    /\ table_result # None
    /\ table_result.built # <<>>
    /\ \E i \in 1..Len(table_result.quality_rows) :
          /\ find_source_line(cli_lines, table_result.quality_rows[i]).found
          /\ \A k \in 1..Len(table_result.built) :
                table_result.built[k][2] # table_result.quality_rows[i]

\* the fields of the merged record whose value is first found on the line
\* of 0-based index idx, in the order of the merged record
RECURSIVE FieldsFirstFoundOn(_, _, _)
FieldsFirstFoundOn(all_values, lines, idx) ==
    IF all_values = <<>> THEN <<>>
    ELSE LET v == all_values[1][2]
             rest == FieldsFirstFoundOn(Tail(all_values), lines, idx)
         IN  IF /\ Strip(v) # <<>>
                /\ Contains(lines[idx + 1], v)
                /\ \A m \in 1..idx : ~Contains(lines[m], v)
             THEN <<all_values[1]>> \o rest
             ELSE rest

GroupOpenPrefix == <<"<","g","r","o","u","p"," ","n","a","m","e","=","\"">>

\* C12: in a Paragraph template every located field belongs to the first line
\* that holds its value; each such line gives one template line, built by
\* substituting exactly the fields of that line; the template lines come in
\* ascending line order inside one named group.
C12_ParagraphLinesByFirstOccurrence ==
    (para_result # None /\ para_result.ok) =>
        LET all_values == MergeRows(<<>>, rows_to_dicts(headers, rows))
            column_analysis == analyze_column_patterns(rows_to_dicts(headers, rows))
            lt == para_result.line_templates
            text == para_result.text
        IN  /\ \A i \in 1..Len(lt) :
                  /\ lt[i][1] \in 0..(Len(cli_lines) - 1)
                  /\ FieldsFirstFoundOn(all_values, cli_lines, lt[i][1]) # <<>>
                  /\ lt[i][2] = CollapseSpaces(
                        substitute_ttp_vars(
                            cli_lines[lt[i][1] + 1],
                            FieldsFirstFoundOn(all_values, cli_lines, lt[i][1]),
                            column_analysis),
                        3, <<" ", " ">>)
            /\ \A i \in 1..(Len(lt) - 1) : lt[i][1] < lt[i + 1][1]
            /\ \A k \in 0..(Len(cli_lines) - 1) :
                  FieldsFirstFoundOn(all_values, cli_lines, k) # <<>>
                      => \E i \in 1..Len(lt) : lt[i][1] = k
            /\ Len(text) = Len(lt) + 2
            /\ StartsWith(text[1], GroupOpenPrefix)
            /\ Len(text[1]) > Len(GroupOpenPrefix) + 2
            /\ text[Len(text)] = GroupClose
            /\ \A i \in 1..Len(lt) :
                  /\ text[i + 1] = lt[i][2]
                  /\ ~StartsWith(text[i + 1], GroupOpenPrefix)
                  /\ text[i + 1] # GroupClose

\* a Paragraph template of two or more lines, one of them holding two
\* fields, for a record with a value that occurs on two sample lines
C12_Witness ==
    /\ para_result # None
    /\ para_result.ok
    /\ Len(para_result.line_templates) >= 2
    /\ \E i \in 1..Len(para_result.line_templates) :
          Len(FieldsFirstFoundOn(para_result.all_values, cli_lines,
                                 para_result.line_templates[i][1])) >= 2
    /\ \E j \in 1..Len(para_result.all_values) :
          Len(LinesContaining(cli_lines, para_result.all_values[j][2], 0)) >= 2

(***************************************************************************)
(* Specification SpecFind: find_source_line applied to bounded inputs      *)
(***************************************************************************)
FindSamples ==
    {
      \* ['Gi0/1 is up', 'Gi0/2 is down, line protocol is down']
      <<<<"G","i","0","/","1"," ","i","s"," ","u","p">>, <<"G","i","0","/","2"," ","i","s"," ","d","o","w","n",","," ","l","i","n","e"," ","p","r","o","t","o","c","o","l"," ","i","s"," ","d","o","w","n">>>>,
      \* ['1  Gi0/1  ABC123', '2  Gi0/2  XYZ789', '1 ABC123']
      <<<<"1"," "," ","G","i","0","/","1"," "," ","A","B","C","1","2","3">>, <<"2"," "," ","G","i","0","/","2"," "," ","X","Y","Z","7","8","9">>, <<"1"," ","A","B","C","1","2","3">>>>,
      \* ['Port 1', 'Name Gi0/1 up', '  Serial   ABC123']
      <<<<"P","o","r","t"," ","1">>, <<"N","a","m","e"," ","G","i","0","/","1"," ","u","p">>, <<" "," ","S","e","r","i","a","l"," "," "," ","A","B","C","1","2","3">>>>,
      \* ['nothing here', '']
      <<<<"n","o","t","h","i","n","g"," ","h","e","r","e">>, <<>>>>,
      \* []
      <<>>
    }

FindRecords ==
    {
      \* {'PORT': '1', 'NAME': 'Gi0/1', 'SN': 'ABC123'}
      << <<<<"P","O","R","T">>, <<"1">>>>, <<<<"N","A","M","E">>, <<"G","i","0","/","1">>>>, <<<<"S","N">>, <<"A","B","C","1","2","3">>>> >>,
      \* {'PORT': '2', 'NAME': 'Gi0/2', 'SN': 'XYZ789'}
      << <<<<"P","O","R","T">>, <<"2">>>>, <<<<"N","A","M","E">>, <<"G","i","0","/","2">>>>, <<<<"S","N">>, <<"X","Y","Z","7","8","9">>>> >>,
      \* {'STATUS': 'up', 'PROTO': 'up', 'NAME': 'Gi0/9'}
      << <<<<"S","T","A","T","U","S">>, <<"u","p">>>>, <<<<"P","R","O","T","O">>, <<"u","p">>>>, <<<<"N","A","M","E">>, <<"G","i","0","/","9">>>> >>,
      \* {'STATUS': 'down', 'PROTO': 'down', 'NAME': 'Gi0/9'}
      << <<<<"S","T","A","T","U","S">>, <<"d","o","w","n">>>>, <<<<"P","R","O","T","O">>, <<"d","o","w","n">>>>, <<<<"N","A","M","E">>, <<"G","i","0","/","9">>>> >>,
      \* {'NAME': 'Gi0/1', 'STATUS': 'up'}
      << <<<<"N","A","M","E">>, <<"G","i","0","/","1">>>>, <<<<"S","T","A","T","U","S">>, <<"u","p">>>> >>,
      \* {'NAME': 'Gi0/2', 'STATUS': 'up'}
      << <<<<"N","A","M","E">>, <<"G","i","0","/","2">>>>, <<<<"S","T","A","T","U","S">>, <<"u","p">>>> >>,
      \* {'PORT': '1', 'SN': 'ABC123', 'NAME': 'Gi0/7'}
      << <<<<"P","O","R","T">>, <<"1">>>>, <<<<"S","N">>, <<"A","B","C","1","2","3">>>>, <<<<"N","A","M","E">>, <<"G","i","0","/","7">>>> >>,
      \* {'PORT': '9', 'NAME': 'Gi0/9', 'SN': 'QQQ'}
      << <<<<"P","O","R","T">>, <<"9">>>>, <<<<"N","A","M","E">>, <<"G","i","0","/","9">>>>, <<<<"S","N">>, <<"Q","Q","Q">>>> >>,
      \* {'PORT': '1', 'NAME': 'Gi0/9', 'SN': 'QQQ'}
      << <<<<"P","O","R","T">>, <<"1">>>>, <<<<"N","A","M","E">>, <<"G","i","0","/","9">>>>, <<<<"S","N">>, <<"Q","Q","Q">>>> >>,
      \* {'NAME': 'Gi0/1'}
      << <<<<"N","A","M","E">>, <<"G","i","0","/","1">>>> >>,
      \* {'NAME': 'Gi0/1', 'DESC': ' ', 'SN': ''}
      << <<<<"N","A","M","E">>, <<"G","i","0","/","1">>>>, <<<<"D","E","S","C">>, <<" ">>>>, <<<<"S","N">>, <<>>>> >>,
      \* {'PORT': '1', 'NAME': 'Gi0/2', 'SN': 'XYZ789', 'STATUS': 'up'}
      << <<<<"P","O","R","T">>, <<"1">>>>, <<<<"N","A","M","E">>, <<"G","i","0","/","2">>>>, <<<<"S","N">>, <<"X","Y","Z","7","8","9">>>>, <<<<"S","T","A","T","U","S">>, <<"u","p">>>> >>,
      \* {}
      <<  >>
    }

InitFind ==
    /\ pc = "call"
    /\ IdleSelector
    /\ call \in [cli_lines : FindSamples, row_values : FindRecords]
    /\ ret = None

FindCall ==
    /\ pc = "call"
    /\ ret' = find_source_line(call.cli_lines, call.row_values)
    /\ pc' = "done"
    /\ UNCHANGED <<call, selector_vars>>

NextFind == FindCall

SpecFind == InitFind /\ [][NextFind]_vars

\* the distinct non-blank values of a record
DistinctValues(row_values) ==
    {row_values[i][2] : i \in {j \in 1..Len(row_values) :
                                 Strip(row_values[j][2]) # <<>>}}

\* how many distinct values of the record a line contains
DistinctOverlap(row_values, line) ==
    Cardinality({v \in DistinctValues(row_values) : Contains(line, v)})

\* C11: find_source_line returns the first line that contains every value of
\* the record; when there is none, the first of the lines that contain the
\* most distinct values of the record, provided that is at least 2 distinct
\* values; otherwise no line.
C11_FirstFullElseBestOfTwoDistinct ==
    pc = "done" =>
        LET lines == call.cli_lines
            vals == DistinctValues(call.row_values)
            full == {i \in 1..Len(lines) : \A v \in vals : Contains(lines[i], v)}
            most == {i \in 1..Len(lines) :
                        \A k \in 1..Len(lines) :
                            DistinctOverlap(call.row_values, lines[k])
                                <= DistinctOverlap(call.row_values, lines[i])}
            first(S) == CHOOSE i \in S : \A k \in S : i <= k
        IN  IF vals = {} THEN ~ret.found
            ELSE IF full # {}
            THEN ret.found /\ ret.idx = first(full) - 1 /\ ret.line = lines[first(full)]
            ELSE IF most # {} /\ DistinctOverlap(call.row_values, lines[first(most)]) >= 2
            THEN ret.found /\ ret.idx = first(most) - 1 /\ ret.line = lines[first(most)]
            ELSE ~ret.found

\* ---------------------------------------------------------------------
\* tfsm2ttp/cli.py process_single_template and tfsm2ttp/validation.py:
\* one (grammar, sample) unit is generated, optionally executed through
\* the TTP engine, and reported. The TTP engine is an external library:
\* what it returns for a template and a sample is an input of the model.

\* an error of a result dict: None, or a text (the sequence of its
\* characters; '' is Message(<<>>))
NoMessage == <<>>
Message(text) == <<text>>

Min(a, b) == IF a < b THEN a ELSE b

\* str(n) for an int n >= 0
RECURSIVE Decimal(_)
Decimal(n) ==
    (IF n < 10 THEN <<>> ELSE Decimal(n \div 10))
    \o <<SubSeq(Ascii, 17, 26)[(n % 10) + 1]>>

\* s[:n]
Truncated(s, n) == SubSeq(s, 1, Min(n, Len(s)))

\* a key of a result dict that is not a str: an int
IntKey == <<"int">>
IsStrKey(k) == k = <<>> \/ k[1] # "int"


\* TTP result trees: dicts, lists and scalar leaves. The items of a dict
\* are its <<key, value>> pairs in order; the items of a list are stored
\* the same way, under the empty key.
DictNode(items) == [t |-> "dict", items |-> items, v |-> <<>>]
ListNode(nodes) ==
    [t |-> "list", items |-> [i \in 1..Len(nodes) |-> << <<>>, nodes[i] >>],
     v |-> <<>>]
StrNode(s) == [t |-> "str", items |-> <<>>, v |-> s]
NoneNode == [t |-> "none", items |-> <<>>, v |-> <<>>]

\* has_data = any(k for k in obj.keys() if not k.startswith('_')
\*                and not isinstance(obj[k], (list, dict)))
HasData(obj) ==
    \E i \in 1..Len(obj.items) :
        /\ obj.items[i][1] # <<>>
        /\ ~StartsWith(obj.items[i][1], <<"_">>)
        /\ obj.items[i][2].t \notin {"dict", "list"}

RECURSIVE count_records(_)
RECURSIVE CountRecordsIn(_)
\* the sum of count_records over a sequence of nodes
CountRecordsIn(nodes) ==
    IF nodes = <<>> THEN 0
    ELSE count_records(Head(nodes)) + CountRecordsIn(Tail(nodes))

\* the scan of the keys by any(...), from the i-th key on: k.startswith('_')
\* raises an AttributeError on a key that is not a str, unless a key before
\* it was a non-empty public key of a scalar and ended the scan
RECURSIVE KeyScanRaises(_, _)
KeyScanRaises(obj, i) ==
    IF i > Len(obj.items) THEN FALSE
    ELSE IF ~IsStrKey(obj.items[i][1]) THEN TRUE
    ELSE IF /\ obj.items[i][1] # <<>>
            /\ ~StartsWith(obj.items[i][1], <<"_">>)
            /\ obj.items[i][2].t \notin {"dict", "list"}
    THEN FALSE
    ELSE KeyScanRaises(obj, i + 1)

RECURSIVE CountRecordsRaises(_)
\* count_records raises on the tree: in the key scan of one of its dicts
CountRecordsRaises(obj) ==
    \/ obj.t = "dict" /\ KeyScanRaises(obj, 1)
    \/ /\ obj.t \in {"dict", "list"}
       /\ \E i \in 1..Len(obj.items) : CountRecordsRaises(obj.items[i][2])

count_records(obj) ==
    IF obj.t = "dict"
    THEN (IF HasData(obj) THEN 1 ELSE 0)
         + CountRecordsIn([i \in 1..Len(obj.items) |-> obj.items[i][2]])
    ELSE IF obj.t = "list"
    THEN CountRecordsIn([i \in 1..Len(obj.items) |-> obj.items[i][2]])
    ELSE 0

\* compare_results: the counts (match_rate is not read by the caller), or
\* the text of the AttributeError that count_records raised
compare_results(textfsm_rows, ttp_results) ==
    IF CountRecordsRaises(ttp_results)
    THEN [textfsm_count |-> Len(textfsm_rows), ttp_count |-> 0,
          raises |-> Message(<<"'","i","n","t","'"," ","o","b","j","e","c","t"," ","h","a","s"," ","n","o"," ","a","t","t","r","i","b","u","t","e"," ","'","s","t","a","r","t","s","w","i","t","h","'">>)]
    ELSE [textfsm_count |-> Len(textfsm_rows),
          ttp_count |-> count_records(ttp_results),
          raises |-> NoMessage]

\* validate_ttp_template returns (success, results, error)
TtpFailed(message) == [ok |-> FALSE, results |-> ListNode(<<>>), error |-> message]
TtpParsed(tree) == [ok |-> TRUE, results |-> tree, error |-> <<>>]

EngineTextLimit == 100

\* str(e) of the exceptions the engine raises
EngineErrorPool ==
    {<<"I","n","v","a","l","i","d"," ","r","e","g","e","x">>,
     <<"F","a","i","l","e","d"," ","t","o"," ","l","o","a","d"," ","t","e","m","p","l","a","t","e",","," ","u","n","b","a","l","a","n","c","e","d"," ","b","r","a","c","e","s"," ","i","n"," ","t","h","e"," ","l","i","n","e"," ","'","{","{","N","{","{","X","}","}","}","}"," ","O"," ","{","{","Z"," ","|"," ","O","R","P","H","R","A","S","E","}","}","'"," ","o","f"," ","t","h","e"," ","g","r","o","u","p"," ","'","i","n","t","f","_","p","o","r","t","_","n","a","m","e","'">>}

\* results[0] of the engine, for the runs in which it returns
TtpResultPool ==
    {
      \* []
      ListNode(<<>>),
      \* {}
      DictNode(<<>>),
      \* {'_meta': 'x', 'intf_port': []}
      DictNode(<<<<<<"_","m","e","t","a">>, StrNode(<<"x">>)>>, <<<<"i","n","t","f","_","p","o","r","t">>, ListNode(<<>>)>>>>),
      \* {'intf_port': [{'PORT': '1', 'NAME': 'Gi0/1'}, {'PORT': '2', 'NAME': 'Gi0/2'}]}
      DictNode(<<<<<<"i","n","t","f","_","p","o","r","t">>, ListNode(<<DictNode(<<<<<<"P","O","R","T">>, StrNode(<<"1">>)>>, <<<<"N","A","M","E">>, StrNode(<<"G","i","0","/","1">>)>>>>), DictNode(<<<<<<"P","O","R","T">>, StrNode(<<"2">>)>>, <<<<"N","A","M","E">>, StrNode(<<"G","i","0","/","2">>)>>>>)>>)>>>>),
      \* {'parsed': {'INTF': 'eth0', 'sub': {'PORT': '1'}}}
      DictNode(<<<<<<"p","a","r","s","e","d">>, DictNode(<<<<<<"I","N","T","F">>, StrNode(<<"e","t","h","0">>)>>, <<<<"s","u","b">>, DictNode(<<<<<<"P","O","R","T">>, StrNode(<<"1">>)>>>>)>>>>)>>>>),
      \* [{'grp': {'NAME': 'Gi0/2'}}]
      ListNode(<<DictNode(<<<<<<"g","r","p">>, DictNode(<<<<<<"N","A","M","E">>, StrNode(<<"G","i","0","/","2">>)>>>>)>>>>)>>),
      \* {'intf_name': {'INTF': 'eth1', 'NAME': 'Gi0/2', 'SN': 'to, core'}}
      DictNode(<<<<<<"i","n","t","f","_","n","a","m","e">>, DictNode(<<<<<<"I","N","T","F">>, StrNode(<<"e","t","h","1">>)>>, <<<<"N","A","M","E">>, StrNode(<<"G","i","0","/","2">>)>>, <<<<"S","N">>, StrNode(<<"t","o",","," ","c","o","r","e">>)>>>>)>>>>),
      \* {5: 'x'}
      DictNode(<<<<IntKey, StrNode(<<"x">>)>>>>),
      \* {'INTF': 'eth0', 5: 'x'}
      DictNode(<<<<<<"I","N","T","F">>, StrNode(<<"e","t","h","0">>)>>, <<IntKey, StrNode(<<"x">>)>>>>),
      \* {'intf_port': [{'PORT': '1'}, {'_line': '3', 2: 'Gi0/2'}]}
      DictNode(<<<<<<"i","n","t","f","_","p","o","r","t">>, ListNode(<<DictNode(<<<<<<"P","O","R","T">>, StrNode(<<"1">>)>>>>), DictNode(<<<<<<"_","l","i","n","e">>, StrNode(<<"3">>)>>, <<IntKey, StrNode(<<"G","i","0","/","2">>)>>>>)>>)>>>>)
    }

\* every way validate_ttp_template can end
TtpOutcomes ==
    {TtpFailed(<<"T","T","P"," ","l","i","b","r","a","r","y"," ","n","o","t"," ","i","n","s","t","a","l","l","e","d">>),
     TtpFailed(<<"T","T","P"," ","p","a","r","s","i","n","g"," ","t","i","m","e","d"," ","o","u","t">>),
     [ok |-> TRUE, results |-> ListNode(<<>>), error |-> <<"N","o"," ","r","e","s","u","l","t","s"," ","p","a","r","s","e","d">>]}
    \cup {TtpFailed(<<"T","T","P"," ","p","a","r","s","e"," ","e","r","r","o","r",":"," ">> \o Truncated(e, EngineTextLimit)) :
            e \in EngineErrorPool}
    \cup {TtpParsed(tree) : tree \in TtpResultPool}

\* not content or not content.strip(), the content given as its lines
EmptyContent(lines) == \A i \in 1..Len(lines) : Strip(lines[i]) = <<>>

\* the selection of generate_ttp_template among the results of the three
\* generators
SelectStrategy(template_lines, hs, rs, lines, ms, para, table) ==
    IF hs = <<>>
    THEN ReturnedError("# ERROR: No headers found in TextFSM template")
    ELSE IF rs = <<>>
    THEN ReturnedError("# ERROR: TextFSM produced no parsed rows")
    ELSE IF parse_textfsm_filldown_values(template_lines).filldown_vars # <<>>
            /\ ms.ok
    THEN Returned(ms)
    ELSE IF SkipTableHeuristic(hs, rs, lines) /\ para.ok
    THEN Returned(para)
    ELSE IF table.ok
    THEN Returned(table)
    ELSE IF para.ok
    THEN Returned(para)
    ELSE FinalError(table, para)

\* generate_ttp_template on what the oracle returned for the pair
generate_ttp_template(template_lines, hs, rs, lines, n) ==
    SelectStrategy(template_lines, hs, rs, lines,
                   generate_multisection_template(hs, rs, lines, template_lines, n),
                   generate_paragraph_template(hs, rs, lines, Max(ParagraphMinValues, n)),
                   generate_table_template(hs, rs, lines, n))

\* the text of a message of the generators (converter.py, table.py,
\* paragraph.py, multisection.py), the numbers formatted into it
ErrorText(err) ==
    CASE err.kind = "# No quality rows found (need {min_cols} or more columns populated)" ->
           <<"#"," ","N","o"," ","q","u","a","l","i","t","y"," ","r","o","w","s"," ","f","o","u","n","d"," ","(","n","e","e","d"," ">> \o Decimal(err.need)
           \o <<" ","o","r"," ","m","o","r","e"," ","c","o","l","u","m","n","s"," ","p","o","p","u","l","a","t","e","d",")">>
      [] err.kind = "# No quality data found (need {min_values} or more values, got {len(all_values)})" ->
           <<"#"," ","N","o"," ","q","u","a","l","i","t","y"," ","d","a","t","a"," ","f","o","u","n","d"," ","(","n","e","e","d"," ">> \o Decimal(err.need)
           \o <<" ","o","r"," ","m","o","r","e"," ","v","a","l","u","e","s",","," ","g","o","t"," ">> \o Decimal(err.got) \o <<")">>
      [] err.kind = "# Insufficient regular values (need {min_cols}, got {len(regular_values)})" ->
           <<"#"," ","I","n","s","u","f","f","i","c","i","e","n","t"," ","r","e","g","u","l","a","r"," ","v","a","l","u","e","s"," ","(","n","e","e","d"," ">> \o Decimal(err.need)
           \o <<","," ","g","o","t"," ">> \o Decimal(err.got) \o <<")">>
      [] err.kind = "# ERROR: No headers found in TextFSM template" ->
           <<"#"," ","E","R","R","O","R",":"," ","N","o"," ","h","e","a","d","e","r","s"," ","f","o","u","n","d"," ","i","n"," ","T","e","x","t","F","S","M"," ","t","e","m","p","l","a","t","e">>
      [] err.kind = "# ERROR: TextFSM produced no parsed rows" ->
           <<"#"," ","E","R","R","O","R",":"," ","T","e","x","t","F","S","M"," ","p","r","o","d","u","c","e","d"," ","n","o"," ","p","a","r","s","e","d"," ","r","o","w","s">>
      [] err.kind = "# ERROR: Could not generate any TTP patterns from parsed data" ->
           <<"#"," ","E","R","R","O","R",":"," ","C","o","u","l","d"," ","n","o","t"," ","g","e","n","e","r","a","t","e"," ","a","n","y"," ","T","T","P"," ","p","a","t","t","e","r","n","s"," ","f","r","o","m"," ","p","a","r","s","e","d"," ","d","a","t","a">>
      [] err.kind = "# ERROR: No parsed data from TextFSM" ->
           <<"#"," ","E","R","R","O","R",":"," ","N","o"," ","p","a","r","s","e","d"," ","d","a","t","a"," ","f","r","o","m"," ","T","e","x","t","F","S","M">>
      [] err.kind = "# ERROR: Could not map any values to source lines" ->
           <<"#"," ","E","R","R","O","R",":"," ","C","o","u","l","d"," ","n","o","t"," ","m","a","p"," ","a","n","y"," ","v","a","l","u","e","s"," ","t","o"," ","s","o","u","r","c","e"," ","l","i","n","e","s">>
      [] err.kind = "# ERROR: Could not generate line templates" ->
           <<"#"," ","E","R","R","O","R",":"," ","C","o","u","l","d"," ","n","o","t"," ","g","e","n","e","r","a","t","e"," ","l","i","n","e"," ","t","e","m","p","l","a","t","e","s">>
      [] err.kind = "# No Filldown values found - not multi-section data" ->
           <<"#"," ","N","o"," ","F","i","l","l","d","o","w","n"," ","v","a","l","u","e","s"," ","f","o","u","n","d"," ","-"," ","n","o","t"," ","m","u","l","t","i","-","s","e","c","t","i","o","n"," ","d","a","t","a">>
      [] err.kind = "# No filldown values captured - not multi-section data" ->
           <<"#"," ","N","o"," ","f","i","l","l","d","o","w","n"," ","v","a","l","u","e","s"," ","c","a","p","t","u","r","e","d"," ","-"," ","n","o","t"," ","m","u","l","t","i","-","s","e","c","t","i","o","n"," ","d","a","t","a">>
      [] err.kind = "# Could not identify section header line" ->
           <<"#"," ","C","o","u","l","d"," ","n","o","t"," ","i","d","e","n","t","i","f","y"," ","s","e","c","t","i","o","n"," ","h","e","a","d","e","r"," ","l","i","n","e">>
      [] err.kind = "# Could not identify data row line" ->
           <<"#"," ","C","o","u","l","d"," ","n","o","t"," ","i","d","e","n","t","i","f","y"," ","d","a","t","a"," ","r","o","w"," ","l","i","n","e">>

\* result.startswith("# ERROR:") or result.startswith("# No quality")
ErrorMarked(text) ==
    StartsWith(text, <<"#"," ","E","R","R","O","R",":">>) \/ StartsWith(text, <<"#"," ","N","o"," ","q","u","a","l","i","t","y">>)

\* "No quality rows" in error or "No quality data" in error
NoQualityError(error) ==
    Contains(error, <<"N","o"," ","q","u","a","l","i","t","y"," ","r","o","w","s">>) \/ Contains(error, <<"N","o"," ","q","u","a","l","i","t","y"," ","d","a","t","a">>)

\* the (success, template, error) triple of safe_generate_ttp_template for
\* what generate_ttp_template returned; a ValueError of the oracle becomes
\* the error, str(e). A returned message without a marker is passed on as
\* the template of a success.
SafeResult(oracle_error, result) ==
    IF oracle_error # NoMessage
    THEN [success |-> FALSE, text |-> <<>>, error |-> oracle_error[1]]
    ELSE IF ~result.ok /\ ErrorMarked(ErrorText(result.err))
    THEN [success |-> FALSE, text |-> <<>>, error |-> ErrorText(result.err)]
    ELSE [success |-> TRUE,
          text |-> IF result.ok THEN result.text ELSE <<ErrorText(result.err)>>,
          error |-> <<>>]

safe_generate_ttp_template(oracle_error, template_lines, hs, rs, lines, n) ==
    SafeResult(oracle_error, generate_ttp_template(template_lines, hs, rs, lines, n))

\* the result dict of process_single_template
UnitResult(status, template, error, textfsm_rows, ttp_rows, match_ratio) ==
    [status |-> status, ttp_template |-> template, error |-> error,
     textfsm_rows |-> textfsm_rows, ttp_rows |-> ttp_rows,
     match_ratio |-> match_ratio]

\* ---------------------------------------------------------------------
\* Python floats (IEEE 754 binary64, round to nearest, ties to even), for
\* the non-negative values the match ratio and the scores take. A natural
\* number of any size is the sequence of its digits in base 2^15, lowest
\* first, without a leading zero digit. A float is [m, e] with the value
\* m * 2^e, where m is odd and has at most 53 binary digits; 0.0 is
\* [m |-> <<>>, e |-> 0].
\* Equal floats are equal records.

LimbBits == 15
LimbBase == 32768

\* the digits of an int k >= 0
RECURSIVE Limbs(_)
Limbs(k) == IF k = 0 THEN <<>> ELSE <<k % LimbBase>> \o Limbs(k \div LimbBase)

\* a + b + carry
RECURSIVE LimbsAdd(_, _, _)
LimbsAdd(a, b, carry) ==
    IF a = <<>> /\ b = <<>> THEN Limbs(carry)
    ELSE LET s == (IF a = <<>> THEN 0 ELSE a[1]) + (IF b = <<>> THEN 0 ELSE b[1]) + carry
         IN  <<s % LimbBase>> \o LimbsAdd(IF a = <<>> THEN <<>> ELSE Tail(a),
                                          IF b = <<>> THEN <<>> ELSE Tail(b),
                                          s \div LimbBase)

\* a * k + carry for an int 0 <= k <= 2^15
RECURSIVE LimbsTimes(_, _, _)
LimbsTimes(a, k, carry) ==
    IF a = <<>> THEN Limbs(carry)
    ELSE LET s == a[1] * k + carry
         IN  <<s % LimbBase>> \o LimbsTimes(Tail(a), k, s \div LimbBase)

\* a without leading zero digits
RECURSIVE LimbsTrim(_)
LimbsTrim(a) ==
    IF a # <<>> /\ a[Len(a)] = 0 THEN LimbsTrim(SubSeq(a, 1, Len(a) - 1)) ELSE a

\* a * b
RECURSIVE LimbsMul(_, _)
LimbsMul(a, b) ==
    IF b = <<>> \/ a = <<>> THEN <<>>
    ELSE LimbsAdd(LimbsTrim(LimbsTimes(a, b[1], 0)),
                  LimbsTrim(<<0>> \o LimbsMul(a, Tail(b))), 0)

\* a < b
LimbsLess(a, b) ==
    \/ Len(a) < Len(b)
    \/ /\ Len(a) = Len(b)
       /\ \E i \in 1..Len(a) :
             a[i] < b[i] /\ \A j \in (i + 1)..Len(a) : a[j] = b[j]

\* the number of binary digits of a
BitLength(a) ==
    IF a = <<>> THEN 0
    ELSE LimbBits * (Len(a) - 1)
         + (CHOOSE n \in 1..LimbBits : 2^(n - 1) <= a[Len(a)] /\ a[Len(a)] < 2^n)

\* a * 2^n
LimbsShiftLeft(a, n) ==
    IF a = <<>> THEN <<>>
    ELSE [i \in 1..(n \div LimbBits) |-> 0]
         \o LimbsTrim(LimbsTimes(a, 2^(n % LimbBits), 0))

\* a \div 2^n
LimbsShiftRight(a, n) ==
    LET q == n \div LimbBits
        r == n % LimbBits
    IN  LimbsTrim([i \in 1..(Len(a) - q) |->
                     (a[i + q] \div 2^r)
                     + (IF i + q < Len(a) THEN (a[i + q + 1] % 2^r) * 2^(LimbBits - r)
                        ELSE 0)])

\* the binary digit of a at position i, the lowest being 1
BitAt(a, i) == (a[((i - 1) \div LimbBits) + 1] \div 2^((i - 1) % LimbBits)) % 2

\* one of the n lowest binary digits of a is 1
LowBitsSet(a, n) ==
    \/ \E j \in 1..(n \div LimbBits) : a[j] # 0
    \/ a[(n \div LimbBits) + 1] % 2^(n % LimbBits) # 0

\* the number of zero binary digits a nonzero a ends with
TrailingZeros(a) ==
    CHOOSE n \in 0..(LimbBits * Len(a)) : BitAt(a, n + 1) = 1 /\ ~LowBitsSet(a, n)

FloatMantissaBits == 53

\* m * 2^e with the zero digits m ends with moved into the exponent
FloatNormal(m, e) ==
    IF m = <<>> THEN [m |-> <<>>, e |-> 0]
    ELSE [m |-> LimbsShiftRight(m, TrailingZeros(m)), e |-> e + TrailingZeros(m)]

\* the float nearest to m * 2^e, ties to the even mantissa
FloatRound(m, e) ==
    IF BitLength(m) <= FloatMantissaBits THEN FloatNormal(m, e)
    ELSE LET d == BitLength(m) - FloatMantissaBits
             kept == LimbsShiftRight(m, d)
             up == BitAt(m, d) = 1 /\ (LowBitsSet(m, d - 1) \/ kept[1] % 2 = 1)
         IN  FloatNormal(IF up THEN LimbsAdd(kept, <<1>>, 0) ELSE kept, e + d)

\* float(k) for an int k >= 0
Float(k) == FloatRound(Limbs(k), 0)

\* x + y
FloatAdd(x, y) ==
    LET e == IF x.e <= y.e THEN x.e ELSE y.e
    IN  IF x.m = <<>> THEN y
        ELSE IF y.m = <<>> THEN x
        ELSE FloatRound(LimbsAdd(LimbsShiftLeft(x.m, x.e - e),
                                 LimbsShiftLeft(y.m, y.e - e), 0), e)

\* x * y
FloatMul(x, y) == FloatRound(LimbsMul(x.m, y.m), x.e + y.e)

DivisionLimbs == 5

\* Long division in base 2^15: n more digits of the quotient of r by b
\* after the digits acc; the result carries the remainder
RECURSIVE DivLoop(_, _, _, _)
DivLoop(r, b, acc, n) ==
    IF n = 0 THEN [m |-> acc, r |-> r]
    ELSE DivLoop((r * LimbBase) % b, b, <<(r * LimbBase) \div b>> \o acc, n - 1)

\* a / b for ints a >= 0 and 0 < b < 2^15, and for the floats of such
\* ints: the quotient to 75 digits after the binary point, with one more
\* digit 1 when the division leaves a remainder
TrueDiv(a, b) ==
    LET q == DivLoop(a % b, b, Limbs(a \div b), DivisionLimbs)
        m == LimbsTrim(q.m)
    IN  IF q.r = 0 THEN FloatRound(m, 0 - LimbBits * DivisionLimbs)
        ELSE FloatRound(LimbsTimes(m, 2, 1), 0 - LimbBits * DivisionLimbs - 1)

\* x < y
FloatLess(x, y) ==
    LET e == IF x.e <= y.e THEN x.e ELSE y.e
    IN  IF y.m = <<>> THEN FALSE
        ELSE IF x.m = <<>> THEN TRUE
        ELSE LimbsLess(LimbsShiftLeft(x.m, x.e - e), LimbsShiftLeft(y.m, y.e - e))

\* x <= y
FloatLeq(x, y) == x = y \/ FloatLess(x, y)

\* if comparison['textfsm_count'] > 0: the ratio is stored
RatioStored_always(textfsm_count) == TRUE

RatioStored(textfsm_count) == textfsm_count > 0

\* ttp_count / textfsm_count, a float; a division by 0 raises
Ratio(ttp_count, textfsm_count) ==
    IF textfsm_count = 0 THEN [raises |-> "ZeroDivisionError"]
    ELSE TrueDiv(ttp_count, textfsm_count)

ComparisonTextLimit == 50

\* the result of the unit once the template was generated (gen) and, when
\* validation is asked for, compared with the oracle's rows (comparison)
UnitOutcome(template_lines, lines, validate, ttp, gen, comparison) ==
    IF EmptyContent(lines)
    THEN UnitResult("failed_generation", None, Message(<<"E","m","p","t","y"," ","C","L","I"," ","c","o","n","t","e","n","t">>), 0, 0, None)
    ELSE IF EmptyContent(template_lines)
    THEN UnitResult("failed_generation", None, Message(<<"E","m","p","t","y"," ","T","e","x","t","F","S","M"," ","t","e","m","p","l","a","t","e">>), 0, 0, None)
    ELSE IF ~gen.success
    THEN UnitResult(IF NoQualityError(gen.error)
                    THEN "no_patterns" ELSE "failed_generation",
                    None, Message(gen.error), 0, 0, None)
    ELSE IF ~validate
    THEN UnitResult("success", [text |-> gen.text], NoMessage, 0, 0, None)
    ELSE IF ~ttp.ok
    THEN UnitResult("failed_validation", [text |-> gen.text], Message(ttp.error), 0, 0, None)
    ELSE IF comparison.raises # NoMessage
    THEN UnitResult("success", [text |-> gen.text],
                    Message(<<"C","o","m","p","a","r","i","s","o","n"," ","e","r","r","o","r",":"," ">>
                            \o Truncated(comparison.raises[1], ComparisonTextLimit)),
                    0, 0, None)
    ELSE IF comparison.ttp_count = 0
    THEN UnitResult("failed_validation", [text |-> gen.text],
                    Message(<<"T","T","P"," ","t","e","m","p","l","a","t","e"," ","p","r","o","d","u","c","e","d"," ","0"," ","r","o","w","s">>),
                    comparison.textfsm_count, comparison.ttp_count, None)
    ELSE UnitResult("success", [text |-> gen.text], NoMessage,
                    comparison.textfsm_count, comparison.ttp_count,
                    IF RatioStored(comparison.textfsm_count)
                    THEN Ratio(comparison.ttp_count, comparison.textfsm_count)
                    ELSE None)

process_single_template(oracle_error, template_lines, hs, rs, lines, n, validate, ttp) ==
    UnitOutcome(template_lines, lines, validate, ttp,
                safe_generate_ttp_template(oracle_error, template_lines, hs, rs, lines, n),
                compare_results(filter_quality_rows(hs, rs, n), ttp.results))

\* what the oracle returned for the unit's grammar and sample
UnitRowsPool ==
    {
      \* []
      <<>>,
      \* [['eth0', '1', 'Gi0/1', ['ABC123']]]
      <<<<StrCell(<<"e","t","h","0">>), StrCell(<<"1">>), StrCell(<<"G","i","0","/","1">>), ListCell(<<<<"A","B","C","1","2","3">>>>)>>>>,
      \* [['eth0', '1', 'Gi0/1', ['ABC123']], ['eth0', '2', 'Gi0/2', ['XYZ789']]]
      <<<<StrCell(<<"e","t","h","0">>), StrCell(<<"1">>), StrCell(<<"G","i","0","/","1">>), ListCell(<<<<"A","B","C","1","2","3">>>>)>>, <<StrCell(<<"e","t","h","0">>), StrCell(<<"2">>), StrCell(<<"G","i","0","/","2">>), ListCell(<<<<"X","Y","Z","7","8","9">>>>)>>>>,
      \* [['eth1', '', '', []], ['', '', 'Gi0/2', ['to', 'core']]]
      <<<<StrCell(<<"e","t","h","1">>), StrCell(<<>>), StrCell(<<>>), ListCell(<<>>)>>, <<StrCell(<<>>), StrCell(<<>>), StrCell(<<"G","i","0","/","2">>), ListCell(<<<<"t","o">>, <<"c","o","r","e">>>>)>>>>,
      \* [['eth0', '7', 'Gi0/7', ['E']], ['eth0', '1', 'Gi0/1', ['ABC123']]]
      <<<<StrCell(<<"e","t","h","0">>), StrCell(<<"7">>), StrCell(<<"G","i","0","/","7">>), ListCell(<<<<"E">>>>)>>, <<StrCell(<<"e","t","h","0">>), StrCell(<<"1">>), StrCell(<<"G","i","0","/","1">>), ListCell(<<<<"A","B","C","1","2","3">>>>)>>>>,
      \* [['eth1', '', '', []]]
      <<<<StrCell(<<"e","t","h","1">>), StrCell(<<>>), StrCell(<<>>), ListCell(<<>>)>>>>
    }

\* a sample without content
BlankSample == <<<<" ", " ">>, <<>>>>

\* str(e) of the exceptions the oracle raises
OracleTextPool ==
    {<<"N","o"," ","V","a","l","u","e"," ","d","e","f","i","n","i","t","i","o","n","s"," ","f","o","u","n","d",".">>,
     <<"I","n","v","a","l","i","d"," ","s","t","a","t","e"," ","n","a","m","e",":"," ","'","N","o"," ","q","u","a","l","i","t","y"," ","r","o","w","s","'","."," ","L","i","n","e",":"," ","6">>}

\* the ValueError messages of parse_with_textfsm
OracleErrors ==
    {Message(<<"I","n","v","a","l","i","d"," ","T","e","x","t","F","S","M"," ","t","e","m","p","l","a","t","e",":"," ">> \o e) : e \in OracleTextPool}
    \cup {Message(<<"T","e","x","t","F","S","M"," ","p","a","r","s","i","n","g"," ","f","a","i","l","e","d",":"," ">> \o e) : e \in OracleTextPool}

UnitMinCols == {3, 5}

InitUnit ==
    /\ pc = "unit"
    /\ template_content \in TemplatePool \cup {<<>>}
    /\ call \in [validate : BOOLEAN, oracle_error : OracleErrors \cup {NoMessage}]
    /\ headers = IF template_content = <<>> \/ call.oracle_error # NoMessage
                 THEN <<>> ELSE SelectorHeaders
    /\ rows \in UnitRowsPool
    /\ headers = <<>> => rows = <<>>
    /\ cli_lines \in SamplePool \cup {BlankSample}
    /\ min_cols \in UnitMinCols
    /\ attempted = <<>>
    /\ ms_result = None
    /\ table_result = None
    /\ para_result = None
    /\ returned = None
    /\ ret = None

\* one unit of the batch; engine is the outcome of the TTP run drawn for it
ProcessSingleTemplate ==
    /\ pc = "unit"
    /\ \E ttp \in TtpOutcomes :
         ret' = process_single_template(call.oracle_error, template_content,
                                        headers, rows, cli_lines, min_cols,
                                        call.validate, ttp)
              @@ [engine |-> ttp]
    /\ pc' = "reported"
    /\ UNCHANGED <<call, selector_vars>>

NextUnit == ProcessSingleTemplate

SpecUnit == InitUnit /\ [][NextUnit]_vars

\* the unit was generated and its template executed by the engine
UnitExecuted ==
    /\ pc = "reported"
    /\ ret.ttp_template # None
    /\ call.validate
    /\ ret.engine.ok

RECURSIVE HasRecord(_)
\* some dict of the tree holds a scalar under a key that is not private
HasRecord(obj) ==
    \/ obj.t = "dict" /\ HasData(obj)
    \/ obj.t = "dict" /\ \E i \in 1..Len(obj.items) : HasRecord(obj.items[i][2])
    \/ obj.t = "list" /\ \E i \in 1..Len(obj.items) : HasRecord(obj.items[i][2])

RECURSIVE KeysAreStrings(_)
\* every key of every dict of the tree is a str
KeysAreStrings(obj) ==
    \A i \in 1..Len(obj.items) :
        /\ obj.t = "dict" => IsStrKey(obj.items[i][1])
        /\ KeysAreStrings(obj.items[i][2])

\* the unit is reported with the note of a comparison that raised
ComparisonFailed ==
    /\ ret.error # NoMessage
    /\ StartsWith(ret.error[1], <<"C","o","m","p","a","r","i","s","o","n"," ","e","r","r","o","r",":"," ">>)

IsVersionCmd_never(cli_command) == FALSE

IsVersionCmd(cli_command) ==
    Contains(Lower(cli_command), <<"v","e","r","s","i","o","n">>)

\* value is not None and str(value).strip()
Populated(value) == value.t # "none" /\ Strip(value.v) # <<>>

\* Factor 1: record count, without the cap of 30 at 10 records
RecordScore_uncapped(num_records, is_version_cmd) ==
    IF is_version_cmd
    THEN IF num_records = 1 THEN Float(30)
         ELSE Float(Max(0, 15 - (num_records - 1) * 5))
    ELSE IF num_records >= 3
    THEN FloatAdd(Float(20), FloatMul(Float(num_records - 3), TrueDiv(10, 7)))
    ELSE FloatMul(Float(num_records), Float(10))

\* Factor 1: record count
RecordScore(num_records, is_version_cmd) ==
    IF is_version_cmd
    THEN IF num_records = 1 THEN Float(30)
         ELSE Float(Max(0, 15 - (num_records - 1) * 5))
    ELSE IF num_records >= 10 THEN Float(30)
    ELSE IF num_records >= 3
    THEN FloatAdd(Float(20), FloatMul(Float(num_records - 3), TrueDiv(10, 7)))
    ELSE FloatMul(Float(num_records), Float(10))

\* Factor 2: field richness; the literal 2.5 is 5 / 2
FieldScore(num_fields) ==
    IF num_fields >= 10 THEN Float(30)
    ELSE IF num_fields >= 6
    THEN FloatAdd(Float(20), FloatMul(Float(num_fields - 6), TrueDiv(5, 2)))
    ELSE IF num_fields >= 3
    THEN FloatAdd(Float(10), FloatMul(Float(num_fields - 3), TrueDiv(10, 3)))
    ELSE FloatMul(Float(num_fields), Float(5))

\* the cells of the records: <<record, position>>
Cells(parsed_data) ==
    UNION {{<<i, j>> : j \in 1..Len(parsed_data[i])} : i \in 1..Len(parsed_data)}

\* populated_cells: every populated value of every record
PopulatedCells(parsed_data) ==
    Cardinality({c \in Cells(parsed_data) : Populated(parsed_data[c[1]][c[2]][2])})

\* Factor 3: population rate, capped at the documented 25 points
PopulationScore_capped(populated_cells, total_cells) ==
    IF total_cells > 0 /\ populated_cells <= total_cells
    THEN FloatMul(TrueDiv(populated_cells, total_cells), Float(25))
    ELSE IF total_cells > 0 THEN Float(25)
    ELSE Float(0)

\* Factor 3: population_rate * 25.0
PopulationScore(populated_cells, total_cells) ==
    IF total_cells > 0
    THEN FloatMul(TrueDiv(populated_cells, total_cells), Float(25))
    ELSE Float(0)

\* field_fill_counts[key]: the records that hold a populated value for key
FieldFillCount(parsed_data, key) ==
    Cardinality({i \in 1..Len(parsed_data) :
                   DictHas(parsed_data[i], key)
                   /\ Populated(DictGet(parsed_data[i], key))})

\* consistent_fields: fields of the first record filled always or never
ConsistentFields(parsed_data) ==
    Cardinality({j \in 1..Len(parsed_data[1]) :
                   LET count == FieldFillCount(parsed_data, parsed_data[1][j][1])
                   IN  count = 0 \/ count = Len(parsed_data)})

\* Factor 4: consistency_rate * 15.0, or 15.0 for a single record
ConsistencyScore(parsed_data) ==
    IF Len(parsed_data) > 1
    THEN IF Len(parsed_data[1]) > 0
         THEN FloatMul(TrueDiv(ConsistentFields(parsed_data), Len(parsed_data[1])),
                       Float(15))
         ELSE Float(0)
    ELSE Float(15)

\* what the scorer computed: the total it returns and its four factors,
\* None for a factor that was not evaluated
Score(total, record_score, field_score, population_score, consistency_score) ==
    [total |-> total, record_score |-> record_score, field_score |-> field_score,
     population_score |-> population_score,
     consistency_score |-> consistency_score]

\* the scorer without its guard on an empty result: num_fields and
\* total_cells are 0, and a result of at most one record is consistent
calculate_template_score_unguarded(parsed_data, cli_command) ==
    LET num_records == Len(parsed_data)
        record_score == RecordScore(num_records, IsVersionCmd(cli_command))
    IN  Score(FloatAdd(record_score, Float(15)),
              record_score, Float(0), Float(0), Float(15))

calculate_template_score(parsed_data, cli_command) ==
    IF parsed_data = <<>>
    THEN Score(Float(0), None, None, None, None)
    ELSE
    LET num_records == Len(parsed_data)
        num_fields == Len(parsed_data[1])
        record_score == RecordScore(num_records, IsVersionCmd(cli_command))
        field_score == FieldScore(num_fields)
        population_score == PopulationScore(PopulatedCells(parsed_data),
                                            num_records * num_fields)
        consistency_score == ConsistencyScore(parsed_data)
    IN  Score(FloatAdd(FloatAdd(FloatAdd(record_score, field_score),
                              population_score), consistency_score),
              record_score, field_score, population_score, consistency_score)

FieldNames ==
    <<
      \* 'INTF'
      <<"I","N","T","F">>,
      \* 'PORT'
      <<"P","O","R","T">>,
      \* 'NAME'
      <<"N","A","M","E">>,
      \* 'SN'
      <<"S","N">>,
      \* 'MAC'
      <<"M","A","C">>,
      \* 'VLAN'
      <<"V","L","A","N">>,
      \* 'IP'
      <<"I","P">>,
      \* 'MTU'
      <<"M","T","U">>,
      \* 'SPEED'
      <<"S","P","E","E","D">>,
      \* 'DUPLEX'
      <<"D","U","P","L","E","X">>,
      \* 'TYPE'
      <<"T","Y","P","E">>,
      \* 'STATE'
      <<"S","T","A","T","E">>
    >>

MaxScoreRecords == 11
MaxScoreFields == 11
MaxSparseRecords == 3
MaxSparseFields == 3

\* n records with the first f field names; the last `blank` fields hold ''
\* in every record, and the first field holds None in the last `holes`
\* records
ScoreData(n, f, blank, holes) ==
    [i \in 1..n |->
       [j \in 1..f |->
          <<FieldNames[j],
            IF j > f - blank THEN StrNode(<<>>)
            ELSE IF j = 1 /\ i > n - holes THEN NoneNode
            ELSE StrNode(<<"v">>)>>]]

\* n records with f populated fields each
UniformData(n, f) == ScoreData(n, f, 0, 0)

\* results whose records differ in their field sets or hold blank values
MixedDataPool ==
    {
      \* [{'INTF': 'eth0'}, {'INTF': 'eth1', 'PORT': '2', 'NAME': 'Gi0/2', 'SN': 'X1'}]
      <<<<<<<<"I","N","T","F">>, StrNode(<<"e","t","h","0">>)>>>>,
        <<<<<<"I","N","T","F">>, StrNode(<<"e","t","h","1">>)>>, <<<<"P","O","R","T">>, StrNode(<<"2">>)>>, <<<<"N","A","M","E">>, StrNode(<<"G","i","0","/","2">>)>>, <<<<"S","N">>, StrNode(<<"X","1">>)>>>>>>,
      \* [{'INTF': 'eth0'}, {'INTF': 'eth1', 'PORT': '2', 'NAME': 'Gi0/2'}]
      <<<<<<<<"I","N","T","F">>, StrNode(<<"e","t","h","0">>)>>>>,
        <<<<<<"I","N","T","F">>, StrNode(<<"e","t","h","1">>)>>, <<<<"P","O","R","T">>, StrNode(<<"2">>)>>, <<<<"N","A","M","E">>, StrNode(<<"G","i","0","/","2">>)>>>>>>,
      \* [{'INTF': 'eth0', 'PORT': '1'}, {'NAME': 'Gi0/2'}]
      <<<<<<<<"I","N","T","F">>, StrNode(<<"e","t","h","0">>)>>, <<<<"P","O","R","T">>, StrNode(<<"1">>)>>>>,
        <<<<<<"N","A","M","E">>, StrNode(<<"G","i","0","/","2">>)>>>>>>,
      \* [{'INTF': 'eth0', 'PORT': None}, {'INTF': '  ', 'PORT': '2'}, {'INTF': 'eth2', 'PORT': ''}]
      <<<<<<<<"I","N","T","F">>, StrNode(<<"e","t","h","0">>)>>, <<<<"P","O","R","T">>, NoneNode>>>>,
        <<<<<<"I","N","T","F">>, StrNode(<<" "," ">>)>>, <<<<"P","O","R","T">>, StrNode(<<"2">>)>>>>,
        <<<<<<"I","N","T","F">>, StrNode(<<"e","t","h","2">>)>>, <<<<"P","O","R","T">>, StrNode(<<>>)>>>>>>,
      \* [{'INTF': None}]
      <<<<<<<<"I","N","T","F">>, NoneNode>>>>>>,
      \* [{'INTF': 'eth0', 'PORT': '1', 'NAME': 'Gi0/1'}, {'INTF': 'eth1'}, {'PORT': '3', 'SN': 'X3'}]
      <<<<<<<<"I","N","T","F">>, StrNode(<<"e","t","h","0">>)>>, <<<<"P","O","R","T">>, StrNode(<<"1">>)>>, <<<<"N","A","M","E">>, StrNode(<<"G","i","0","/","1">>)>>>>,
        <<<<<<"I","N","T","F">>, StrNode(<<"e","t","h","1">>)>>>>,
        <<<<<<"P","O","R","T">>, StrNode(<<"3">>)>>, <<<<"S","N">>, StrNode(<<"X","3">>)>>>>>>
    }

ScoreDataPool ==
    {UniformData(n, f) : n \in 0..MaxScoreRecords, f \in 1..MaxScoreFields}
    \cup {ScoreData(n, f, b, h) : n \in 1..MaxSparseRecords, f \in 1..MaxSparseFields,
                                  b \in 0..1, h \in 0..1}
    \cup MixedDataPool

CommandPool ==
    {
      \* 'show version'
      <<"s","h","o","w"," ","v","e","r","s","i","o","n">>,
      \* 'cisco_ios_show_Version'
      <<"c","i","s","c","o","_","i","o","s","_","s","h","o","w","_","V","e","r","s","i","o","n">>,
      \* 'show ip arp'
      <<"s","h","o","w"," ","i","p"," ","a","r","p">>,
      \* 'show interfaces'
      <<"s","h","o","w"," ","i","n","t","e","r","f","a","c","e","s">>
    }

InitScore ==
    /\ pc = "call"
    /\ IdleSelector
    /\ call \in [parsed_data : ScoreDataPool, cli_command : CommandPool]
    /\ ret = None

ScoreCall ==
    /\ pc = "call"
    /\ ret' = calculate_template_score(call.parsed_data, call.cli_command)
    /\ pc' = "done"
    /\ UNCHANGED <<call, selector_vars>>

NextScore == ScoreCall

SpecScore == InitScore /\ [][NextScore]_vars

Scored == pc = "done" /\ call # None /\ ret # None

\* C14: a result of zero records scores exactly 0 and none of the four
\* factors is evaluated, whatever the template's category.
C14_ZeroRecordsScoreZero ==
    (Scored /\ call.parsed_data = <<>>) =>
        /\ ret.total = Float(0)
        /\ ret.record_score = None
        /\ ret.field_score = None
        /\ ret.population_score = None
        /\ ret.consistency_score = None

\* a version template scored on zero records
C14_Witness ==
    /\ Scored
    /\ call.parsed_data = <<>>
    /\ IsVersionCmd(call.cli_command)
    /\ ret.total = Float(0)

\* 0 <= x <= hi
WithinPoints(x, hi) == FloatLeq(Float(0), x) /\ FloatLeq(x, Float(hi))

\* C15: for every non-empty list of flattened records and every category
\* the total lies in 0..100, the record-count and field-richness factors
\* in 0..30, the population factor in 0..25 and the consistency factor in
\* 0..15.
C15_ScoreWithinRanges ==
    (Scored /\ call.parsed_data # <<>>) =>
        /\ WithinPoints(ret.total, 100)
        /\ WithinPoints(ret.record_score, 30)
        /\ WithinPoints(ret.field_score, 30)
        /\ WithinPoints(ret.population_score, 25)
        /\ WithinPoints(ret.consistency_score, 15)

\* the command holds the word "version", in any case
HasVersionWord(cli_command) ==
    \E i \in 1..Len(cli_command) :
        /\ i + 6 <= Len(cli_command)
        /\ Lower(SubSeq(cli_command, i, i + 6)) = <<"v","e","r","s","i","o","n">>

\* C16 as stated: 10 records with the same 10 populated fields score
\* 30 + 30 + 25 + 15 = 100, whatever the category.
C16_TenByTenScoresHundred ==
    (Scored /\ call.parsed_data = UniformData(10, 10)) =>
        /\ ret.record_score = Float(30)
        /\ ret.field_score = Float(30)
        /\ ret.population_score = Float(25)
        /\ ret.consistency_score = Float(15)
        /\ ret.total = Float(100)

\* C16 (amended): 10 records with the same 10 populated fields score 30
\* for fields, 25 for population and 15 for consistency; the record factor
\* is 30 and the total 100 when the category name does not contain
\* "version", and the record factor is 0 and the total 70 when it does.
C16_TenByTenByCategory ==
    (Scored /\ call.parsed_data = UniformData(10, 10)) =>
        /\ ret.field_score = Float(30)
        /\ ret.population_score = Float(25)
        /\ ret.consistency_score = Float(15)
        /\ ret.record_score =
             IF HasVersionWord(call.cli_command) THEN Float(0) ELSE Float(30)
        /\ ret.total =
             IF HasVersionWord(call.cli_command) THEN Float(70) ELSE Float(100)

\* ten uniform records scored for a version template
C16_Witness ==
    /\ Scored
    /\ call.parsed_data = UniformData(10, 10)
    /\ HasVersionWord(call.cli_command)
    /\ ret.total = Float(70)

\* the values that are neither None nor blank
FilledValues(parsed_data) ==
    Cardinality({c \in Cells(parsed_data) :
                   LET value == parsed_data[c[1]][c[2]][2]
                   IN  /\ value.t = "str"
                       /\ \E k \in 1..Len(value.v) : ~IsSpace(value.v[k])})

\* the results a scored result is compared with
ComparePool ==
    {ScoreData(n, f, b, h) : n \in 1..MaxSparseRecords, f \in 1..MaxSparseFields,
                             b \in 0..1, h \in 0..1}
    \cup MixedDataPool

\* a result with the field count and the consistency factor of the scored
\* one, and more populated cells
MorePopulated(other) ==
    /\ Len(other[1]) = Len(call.parsed_data[1])
    /\ ConsistencyScore(other) = ret.consistency_score
    /\ FilledValues(other) > FilledValues(call.parsed_data)

\* C17 as stated: of two non-empty results with the same first-record
\* field count and the same consistency factor, the one with more
\* populated cells has the strictly larger population factor.
C17_PopulationMonotone ==
    (Scored /\ call.parsed_data # <<>>) =>
        \A other \in ComparePool :
            MorePopulated(other) =>
                FloatLess(ret.population_score,
                         calculate_template_score(other, call.cli_command).population_score)

\* C17 (amended): of two non-empty results with the same record count, the
\* same first-record field count and the same consistency factor, the one
\* with more populated cells has the strictly larger population factor.
C17_PopulationMonotoneSameCount ==
    (Scored /\ call.parsed_data # <<>>) =>
        \A other \in ComparePool :
            (MorePopulated(other) /\ Len(other) = Len(call.parsed_data)) =>
                FloatLess(ret.population_score,
                         calculate_template_score(other, call.cli_command).population_score)

\* a scored result of three records, with a more populated result of the
\* same shape to compare it with
C17_Witness ==
    /\ Scored
    /\ Len(call.parsed_data) = 3
    /\ \E other \in ComparePool :
           /\ MorePopulated(other)
           /\ Len(other) = 3
           /\ FilledValues(call.parsed_data) >= 1

\* x is the quotient num / den to within 2^-40: den * x and num differ by
\* at most den * 2^-40, compared as exact numbers scaled by 2^64
IsAbout(x, num, den) ==
    LET scaled == LimbsShiftLeft(LimbsMul(Limbs(den), x.m), x.e + 64)
        exact == LimbsShiftLeft(Limbs(num), 64)
        slack == LimbsShiftLeft(Limbs(den), 24)
    IN  /\ ~LimbsLess(LimbsAdd(exact, slack, 0), scaled)
        /\ ~LimbsLess(LimbsAdd(scaled, slack, 0), exact)

\* C18: the record-count factor for n >= 1 records. Version templates: 30
\* for n = 1, else max(0, 15 - 5 (n - 1)). Other templates: 10 n for
\* n < 3, 20 + 10 (n - 3) / 7 for 3 <= n < 10 (the float next to that
\* quotient), 30 for n >= 10, and the factor never decreases when n grows.
C18_RecordCountCurve ==
    (Scored /\ call.parsed_data # <<>>) =>
        LET n == Len(call.parsed_data)
            score == ret.record_score
        IN  IF HasVersionWord(call.cli_command)
            THEN /\ n = 1 => score = Float(30)
                 /\ n \in 2..3 => score = Float(15 - 5 * (n - 1))
                 /\ n >= 4 => score = Float(0)
            ELSE /\ n < 3 => score = Float(10 * n)
                 /\ (n >= 3 /\ n < 10) =>
                        IsAbout(score, 140 + 10 * (n - 3), 7)
                 /\ n >= 10 => score = Float(30)
                 /\ \A m \in 1..n :
                        FloatLeq(RecordScore(m, FALSE), score)

\* five records scored for a template that is not a version template
C18_Witness ==
    /\ Scored
    /\ ~HasVersionWord(call.cli_command)
    /\ Len(call.parsed_data) = 5
    /\ IsAbout(ret.record_score, 160, 7)
    /\ ret.record_score = FloatAdd(Float(20), FloatMul(Float(2), TrueDiv(10, 7)))

\* ---------------------------------------------------------------------
\* parsing_fire/ttp_fire.py TTPAutoEngine._parse_with_ttp and
\* TTPAutoEngine.find_best_template. What the TTP engine does with a
\* template on the device output (it raises, or returns a result tree) is
\* an input of the model, fixed per template.

\* any(not isinstance(v, (list, dict)) for v in obj.values())
HasScalar(obj) ==
    \E i \in 1..Len(obj.items) : obj.items[i][2].t \notin {"dict", "list"}

\* {k: v for k, v in obj.items() if not isinstance(v, (list, dict))}
ScalarItems(obj) ==
    SelectSeq(obj.items, LAMBDA item : item[2].t \notin {"dict", "list"})

RECURSIVE extract_records(_)
RECURSIVE ExtractRecordsIn(_)
\* the records of a sequence of nodes, in order
ExtractRecordsIn(nodes) ==
    IF nodes = <<>> THEN <<>>
    ELSE extract_records(Head(nodes)) \o ExtractRecordsIn(Tail(nodes))

\* the flattened records of a result tree: a dict with scalar values gives
\* one record, ahead of the records nested in it
extract_records(obj) ==
    IF obj.t = "dict"
    THEN (IF HasScalar(obj) THEN <<ScalarItems(obj)>> ELSE <<>>)
         \o ExtractRecordsIn([i \in 1..Len(obj.items) |-> obj.items[i][2]])
    ELSE IF obj.t = "list"
    THEN ExtractRecordsIn([i \in 1..Len(obj.items) |-> obj.items[i][2]])
    ELSE <<>>

\* an entry of all_scores: (cli_command, score, len(parsed_dicts))
ScoreEntry(cli_command, score, records) ==
    [cli_command |-> cli_command, score |-> score, records |-> records]

\* all_scores.sort(key=lambda x: x[1], reverse=True): stable
RECURSIVE InsertByScoreDesc(_, _)
InsertByScoreDesc(sorted, entry) ==
    IF sorted = <<>> THEN <<entry>>
    ELSE IF FloatLeq(entry.score, Head(sorted).score)
         THEN <<Head(sorted)>> \o InsertByScoreDesc(Tail(sorted), entry)
         ELSE <<entry>> \o sorted

\* the entries left in the order in which they were appended
SortByScoreDesc_unsorted(entries) == entries

RECURSIVE SortByScoreDesc(_)
SortByScoreDesc(entries) ==
    IF entries = <<>> THEN <<>>
    ELSE InsertByScoreDesc(SortByScoreDesc(SubSeq(entries, 1, Len(entries) - 1)),
                           entries[Len(entries)])

\* the last template reaching the best score replaces the earlier one
BetterScore_or_equal(score, best_score) == FloatLeq(best_score, score)

\* if score > best_score
BetterScore(score, best_score) == FloatLess(best_score, score)

\* the templates of the database, each with what the engine does with it
BestTemplatePool ==
    {
      \* 'show version': {'VERSION': '15.1', 'UPTIME': '2 days', 'IMAGE': 'flash:ios.bin'}
      [cli_command |-> <<"s","h","o","w"," ","v","e","r","s","i","o","n">>, raises |-> FALSE,
       results |-> DictNode(<<<<<<"V","E","R","S","I","O","N">>, StrNode(<<"1","5",".","1">>)>>, <<<<"U","P","T","I","M","E">>, StrNode(<<"2"," ","d","a","y","s">>)>>, <<<<"I","M","A","G","E">>, StrNode(<<"f","l","a","s","h",":","i","o","s",".","b","i","n">>)>>>>)],
      \* 'show ip arp': {'arp': [{'IP': '10.0.0.1', 'MAC': 'aa:bb'}, {'IP': '10.0.0.2', 'MAC': 'cc:dd'}]}
      [cli_command |-> <<"s","h","o","w"," ","i","p"," ","a","r","p">>, raises |-> FALSE,
       results |-> DictNode(<<<<<<"a","r","p">>, ListNode(<<DictNode(<<<<<<"I","P">>, StrNode(<<"1","0",".","0",".","0",".","1">>)>>, <<<<"M","A","C">>, StrNode(<<"a","a",":","b","b">>)>>>>), DictNode(<<<<<<"I","P">>, StrNode(<<"1","0",".","0",".","0",".","2">>)>>, <<<<"M","A","C">>, StrNode(<<"c","c",":","d","d">>)>>>>)>>)>>>>)],
      \* 'show interfaces': [{'INTF': 'eth0', 'STATE': 'up'}, {'INTF': 'eth1', 'STATE': 'up'}]
      [cli_command |-> <<"s","h","o","w"," ","i","n","t","e","r","f","a","c","e","s">>, raises |-> FALSE,
       results |-> ListNode(<<DictNode(<<<<<<"I","N","T","F">>, StrNode(<<"e","t","h","0">>)>>, <<<<"S","T","A","T","E">>, StrNode(<<"u","p">>)>>>>), DictNode(<<<<<<"I","N","T","F">>, StrNode(<<"e","t","h","1">>)>>, <<<<"S","T","A","T","E">>, StrNode(<<"u","p">>)>>>>)>>)],
      \* 'show vlan': raises
      [cli_command |-> <<"s","h","o","w"," ","v","l","a","n">>, raises |-> TRUE, results |-> ListNode(<<>>)],
      \* 'show cdp neighbors': {'neighbors': {}}
      [cli_command |-> <<"s","h","o","w"," ","c","d","p"," ","n","e","i","g","h","b","o","r","s">>, raises |-> FALSE,
       results |-> DictNode(<<<<<<"n","e","i","g","h","b","o","r","s">>, DictNode(<<>>)>>>>)],
      \* 'show inventory': {'NAME': 'Chassis', 'inv': {'SN': 'X1', 'PID': None, 'slots': [{'SLOT': '1'}]}}
      [cli_command |-> <<"s","h","o","w"," ","i","n","v","e","n","t","o","r","y">>, raises |-> FALSE,
       results |-> DictNode(<<<<<<"N","A","M","E">>, StrNode(<<"C","h","a","s","s","i","s">>)>>, <<<<"i","n","v">>, DictNode(<<<<<<"S","N">>, StrNode(<<"X","1">>)>>, <<<<"P","I","D">>, NoneNode>>, <<<<"s","l","o","t","s">>, ListNode(<<DictNode(<<<<<<"S","L","O","T">>, StrNode(<<"1">>)>>>>)>>)>>>>)>>>>)],
      \* 'show version alpha': [{'F0': 'v', 'F1': '', 'F2': ''}]
      [cli_command |-> <<"s","h","o","w"," ","v","e","r","s","i","o","n"," ","a","l","p","h","a">>, raises |-> FALSE,
       results |-> ListNode(<<DictNode(<<<<<<"F","0">>, StrNode(<<"v">>)>>, <<<<"F","1">>, StrNode(<<>>)>>, <<<<"F","2">>, StrNode(<<>>)>>>>)>>)],
      \* 'show beta': [{'F0': 'v', 'F1': 'v', 'F2': 'v', 'F3': 'v'}]
      [cli_command |-> <<"s","h","o","w"," ","b","e","t","a">>, raises |-> FALSE,
       results |-> ListNode(<<DictNode(<<<<<<"F","0">>, StrNode(<<"v">>)>>, <<<<"F","1">>, StrNode(<<"v">>)>>, <<<<"F","2">>, StrNode(<<"v">>)>>, <<<<"F","3">>, StrNode(<<"v">>)>>>>)>>)]
    }

MaxCorpus == 3

\* the filtered corpus: templates in table order, cli_command being unique
CorpusPool ==
    UNION {{c \in [1..n -> BestTemplatePool] :
              \A i, j \in 1..n : i # j => c[i].cli_command # c[j].cli_command}
           : n \in 0..MaxCorpus}

\* the locals of find_best_template; done counts the templates the loop
\* has gone through
BestState(done, best_template, best_parsed_output, best_score, all_scores) ==
    [done |-> done, best_template |-> best_template,
     best_parsed_output |-> best_parsed_output, best_score |-> best_score,
     all_scores |-> all_scores]

InitBest ==
    /\ pc = "loop"
    /\ IdleSelector
    /\ call \in [templates : CorpusPool]
    /\ ret = BestState(0, None, None, Float(0), <<>>)

\* one iteration in which the engine returns: the template is scored
BestTryTemplate ==
    /\ pc = "loop"
    /\ ret.done < Len(call.templates)
    /\ ~call.templates[ret.done + 1].raises
    /\ LET template == call.templates[ret.done + 1]
           parsed_dicts == extract_records(template.results)
           score == calculate_template_score(parsed_dicts, template.cli_command).total
           better == BetterScore(score, ret.best_score)
       IN  ret' = BestState(
                    ret.done + 1,
                    IF better THEN [cli_command |-> template.cli_command]
                    ELSE ret.best_template,
                    IF better THEN [records |-> parsed_dicts]
                    ELSE ret.best_parsed_output,
                    IF better THEN score ELSE ret.best_score,
                    IF FloatLess(Float(0), score)
                    THEN Append(ret.all_scores,
                                ScoreEntry(template.cli_command, score, Len(parsed_dicts)))
                    ELSE ret.all_scores)
    /\ UNCHANGED <<pc, call, selector_vars>>

\* one iteration in which the engine raises: except Exception: continue
BestSkipFailed ==
    /\ pc = "loop"
    /\ ret.done < Len(call.templates)
    /\ call.templates[ret.done + 1].raises
    /\ ret' = [ret EXCEPT !.done = @ + 1]
    /\ UNCHANGED <<pc, call, selector_vars>>

\* after the loop: all_scores is sorted and the four values are returned
BestReturn ==
    /\ pc = "loop"
    /\ ret.done = Len(call.templates)
    /\ ret' = [ret EXCEPT !.all_scores = SortByScoreDesc(@)]
    /\ pc' = "done"
    /\ UNCHANGED <<call, selector_vars>>

NextBest ==
    \/ BestTryTemplate
    \/ BestSkipFailed
    \/ BestReturn

SpecBest == InitBest /\ [][NextBest]_vars

\* the i-th template of the corpus executed without error
Executed(i) == ~call.templates[i].raises
\* its flattened records and its score
RecordsOf(i) == extract_records(call.templates[i].results)
ScoreOf(i) ==
    calculate_template_score(RecordsOf(i), call.templates[i].cli_command).total

\* the i-th template has the highest score of the executed templates and
\* is the first of the corpus to have it
FirstMaximum(i) ==
    /\ Executed(i)
    /\ \A j \in 1..Len(call.templates) :
           Executed(j) => FloatLeq(ScoreOf(j), ScoreOf(i))
    /\ \A j \in 1..(i - 1) :
           Executed(j) => FloatLess(ScoreOf(j), ScoreOf(i))

\* the i-th template is returned as best, with its own records and score
ReturnedAsBest(i) ==
    /\ ret.best_template = [cli_command |-> call.templates[i].cli_command]
    /\ ret.best_parsed_output = [records |-> RecordsOf(i)]
    /\ ret.best_score = ScoreOf(i)

\* C19 as stated: the best returned is the template with the maximum score
\* among the templates that executed without error, the first evaluated
\* on ties, with its own records and score; templates that raise are
\* skipped and the others are still evaluated.
C19_BestIsFirstMaximum ==
    pc = "done" =>
        /\ ret.done = Len(call.templates)
        /\ \A i \in 1..Len(call.templates) : FirstMaximum(i) => ReturnedAsBest(i)

\* C19 (amended): as stated when that maximum is greater than 0; when no
\* template executed with a score above 0, no best is returned: template
\* and records are None and the score is 0.
C19_BestIsFirstPositiveMaximum ==
    pc = "done" =>
        /\ ret.done = Len(call.templates)
        /\ \A i \in 1..Len(call.templates) :
               (FirstMaximum(i) /\ FloatLess(Float(0), ScoreOf(i))) => ReturnedAsBest(i)
        /\ (\A i \in 1..Len(call.templates) :
                Executed(i) => ScoreOf(i) = Float(0))
           => /\ ret.best_template = None
              /\ ret.best_parsed_output = None
              /\ ret.best_score = Float(0)

\* a corpus whose first template raises and whose two others tie: the
\* second is returned
C19_Witness ==
    /\ pc = "done"
    /\ Len(call.templates) = 3
    /\ ~Executed(1)
    /\ Executed(2) /\ Executed(3)
    /\ ScoreOf(2) = ScoreOf(3)
    /\ FloatLess(Float(0), ScoreOf(2))
    /\ ReturnedAsBest(2)

\* the ranking is ordered by non-increasing score
RankingOrdered ==
    \A k \in 1..(Len(ret.all_scores) - 1) :
        FloatLeq(ret.all_scores[k + 1].score, ret.all_scores[k].score)

\* C20 as stated: the ranking has one entry for every template of the
\* corpus and is ordered by non-increasing score.
C20_RankingCoversCorpus ==
    pc = "done" =>
        /\ Len(ret.all_scores) = Len(call.templates)
        /\ \A i \in 1..Len(call.templates) :
               \E k \in 1..Len(ret.all_scores) :
                   ret.all_scores[k].cli_command = call.templates[i].cli_command
        /\ RankingOrdered

\* the templates that executed without error and scored above 0
Ranked ==
    {i \in 1..Len(call.templates) : Executed(i) /\ FloatLess(Float(0), ScoreOf(i))}

\* C20 (amended): the ranking has one entry (category, score, record
\* count) for every template that executed without error and scored above
\* 0, and no other entry; it is ordered by non-increasing score.
C20_RankingOfScoringTemplates ==
    pc = "done" =>
        /\ Len(ret.all_scores) = Cardinality(Ranked)
        /\ \A i \in Ranked :
               \E k \in 1..Len(ret.all_scores) :
                   ret.all_scores[k] =
                       ScoreEntry(call.templates[i].cli_command, ScoreOf(i),
                                  Len(RecordsOf(i)))
        /\ RankingOrdered

\* a corpus of three with one template scoring 0: the ranking holds the
\* third template ahead of the first
C20_Witness ==
    /\ pc = "done"
    /\ Len(call.templates) = 3
    /\ Executed(2) /\ ScoreOf(2) = Float(0)
    /\ Len(ret.all_scores) = 2
    /\ ret.all_scores[1].cli_command = call.templates[3].cli_command
    /\ ret.all_scores[2].cli_command = call.templates[1].cli_command

\* ---------------------------------------------------------------------
\* tfsm2ttp/cli.py test_from_database: the batch driver. A unit of work is
\* one call of process_single_template; what the driver sees of it is how
\* long it runs (or that it never returns) and what it returns. Time is
\* counted in ticks; the state of the driver is the record ret, its
\* arguments the record call.

\* what a unit does in the end: it returns the status and error of
\* process_single_template, or it raises (status "exception", the error
\* being str(e)). A message is the sequence of its characters.
UnitReturn(status, error) == [status |-> status, error |-> error]

ReturnPool ==
    { UnitReturn("success", NoMessage),
      UnitReturn("success", Message(<<"C","o","m","p","a","r","i","s","o","n"," ","e","r","r","o","r",":"," ","'","i","n","t","'"," ","o","b","j","e","c","t"," ","h","a","s"," ","n","o"," ","a","t","t","r","i","b","u","t","e"," ","'","s","t","a","r","t","s","w","i","t","h","'">>)),
      UnitReturn("failed_generation", Message(<<"E","m","p","t","y"," ","C","L","I"," ","c","o","n","t","e","n","t">>)),
      UnitReturn("no_patterns", Message(<<"#"," ","N","o"," ","q","u","a","l","i","t","y"," ","r","o","w","s"," ","f","o","u","n","d"," ","(","n","e","e","d"," ","3"," ","o","r"," ","m","o","r","e"," ","c","o","l","u","m","n","s"," ","p","o","p","u","l","a","t","e","d",")">>)),
      UnitReturn("failed_validation", Message(<<"T","T","P"," ","t","e","m","p","l","a","t","e"," ","p","r","o","d","u","c","e","d"," ","0"," ","r","o","w","s">>)),
      UnitReturn("failed_validation", Message(<<"T","T","P"," ","p","a","r","s","i","n","g"," ","t","i","m","e","d"," ","o","u","t">>)),
      UnitReturn("exception", Message(<<"'","i","n","t","'"," ","o","b","j","e","c","t"," ","h","a","s"," ","n","o"," ","a","t","t","r","i","b","u","t","e"," ","'","s","t","r","i","p","'">>)),
      UnitReturn("exception", Message(<<"T","i","m","e","o","u","t"," ","t","a","l","k","i","n","g"," ","t","o"," ","d","e","v","i","c","e">>)) }

\* a unit: it returns after `runs` ticks, or never when it hangs
WorkUnit(runs, hangs, returns) == [runs |-> runs, hangs |-> hangs, returns |-> returns]

RunPool == {1, 2, 3}

UnitPool ==
    { WorkUnit(1, FALSE, UnitReturn("success", NoMessage)),
      WorkUnit(3, FALSE, UnitReturn("success", NoMessage)),
      WorkUnit(0, TRUE, UnitReturn("success", NoMessage)),
      WorkUnit(2, FALSE, UnitReturn("success", Message(<<"C","o","m","p","a","r","i","s","o","n"," ","e","r","r","o","r",":"," ","'","i","n","t","'"," ","o","b","j","e","c","t"," ","h","a","s"," ","n","o"," ","a","t","t","r","i","b","u","t","e"," ","'","s","t","a","r","t","s","w","i","t","h","'">>))),
      WorkUnit(1, FALSE, UnitReturn("failed_generation", Message(<<"E","m","p","t","y"," ","C","L","I"," ","c","o","n","t","e","n","t">>))),
      WorkUnit(1, FALSE, UnitReturn("no_patterns", Message(<<"#"," ","N","o"," ","q","u","a","l","i","t","y"," ","r","o","w","s"," ","f","o","u","n","d"," ","(","n","e","e","d"," ","3"," ","o","r"," ","m","o","r","e"," ","c","o","l","u","m","n","s"," ","p","o","p","u","l","a","t","e","d",")">>))),
      WorkUnit(2, FALSE, UnitReturn("failed_validation", Message(<<"T","T","P"," ","t","e","m","p","l","a","t","e"," ","p","r","o","d","u","c","e","d"," ","0"," ","r","o","w","s">>))),
      WorkUnit(1, FALSE, UnitReturn("failed_validation", Message(<<"T","T","P"," ","p","a","r","s","i","n","g"," ","t","i","m","e","d"," ","o","u","t">>))),
      WorkUnit(1, FALSE, UnitReturn("exception", Message(<<"'","i","n","t","'"," ","o","b","j","e","c","t"," ","h","a","s"," ","n","o"," ","a","t","t","r","i","b","u","t","e"," ","'","s","t","r","i","p","'">>))),
      WorkUnit(1, FALSE, UnitReturn("exception", Message(<<"T","i","m","e","o","u","t"," ","t","a","l","k","i","n","g"," ","t","o"," ","d","e","v","i","c","e">>))) }

MaxUnits == 3

\* --timeout, in ticks
TimeoutPool == {2}
\* --workers
WorkersPool == {1, 2}
\* --batch-size: any int, passed on unchecked
BatchSizePool == {-1, 0, 2, 3}


\* the result dicts the driver builds itself
\* 'error': f"Timeout (>{timeout}s)"
TimeoutResult(id) ==
    [id |-> id, status |-> "failed_generation",
     error |-> Message(<<"T","i","m","e","o","u","t"," ","(",">">> \o Decimal(call.timeout) \o <<"s",")">>)]

ExceptionTextLimit == 80

\* 'error': f"Worker exception: {str(e)[:80]}"
ExceptionResult(id, e) ==
    [id |-> id, status |-> "failed_generation",
     error |-> Message(<<"W","o","r","k","e","r"," ","e","x","c","e","p","t","i","o","n",":"," ">> \o Truncated(e, ExceptionTextLimit))]
\* the result dict of a unit that returned
UnitReturned(id, returns) ==
    [id |-> id, status |-> returns.status, error |-> returns.error]

\* 'Timeout' in error_msg
MentionsTimeout(error) == Contains(error[1], <<"T","i","m","e","o","u","t">>)

\* a task of the pool: where the unit is, and when it started and ended
\* (started = -1: no worker has taken it)
Unsubmitted == [at |-> "unsubmitted", started |-> -1, ended |-> 0]

\* min(batch_size, len(work_items))
ActualBatchSize == Min(call.batch_size, Len(call.work_items))

\* the batch starts of range(0, len(work_items), actual_batch_size), items
\* counted from 1: none when the step is negative (a step of 0 raises, see
\* RaiseBatchRange)
BatchStarts ==
    IF ActualBatchSize > 0
    THEN {b \in 1..Len(call.work_items) : (b - 1) % ActualBatchSize = 0}
    ELSE {}

\* the last item of work_items[batch_start:batch_start + actual_batch_size]
\* for the batch that starts at item b: a slice, so that a negative stop
\* counts from the end
BatchLast(b) ==
    LET stop == (b - 1) + ActualBatchSize
    IN  IF stop < 0
        THEN (IF Len(call.work_items) + stop < 0 THEN 0
              ELSE Len(call.work_items) + stop)
        ELSE Min(stop, Len(call.work_items))

\* apply_async: idle workers take the queued tasks in the order of submission
TakeQueued(tasks, now) ==
    LET running == Cardinality({i \in DOMAIN tasks : tasks[i].at = "running"})
        idle == call.workers - running
        ahead(i) == Cardinality({j \in 1..(i - 1) : tasks[j].at = "queued"})
    IN  [i \in DOMAIN tasks |->
            IF tasks[i].at = "queued" /\ ahead(i) < idle
            THEN [at |-> "running", started |-> now, ended |-> 0]
            ELSE tasks[i]]

\* a running unit returns when it has run its time; its worker is idle again
FinishRunning(tasks, now) ==
    [i \in DOMAIN tasks |->
        IF /\ tasks[i].at = "running"
           /\ ~call.work_items[i].hangs
           /\ tasks[i].started + call.work_items[i].runs = now
        THEN [tasks[i] EXCEPT !.at = "done", !.ended = now]
        ELSE tasks[i]]

\* pool.terminate(): no worker of the pool survives it
TerminateWorkers(tasks, now) ==
    [i \in DOMAIN tasks |->
        IF tasks[i].at \in {"running", "queued"}
        THEN [tasks[i] EXCEPT !.at = "terminated", !.ended = now]
        ELSE tasks[i]]

Stats(success, failed_generation, failed_validation, no_patterns, timeouts) ==
    [success |-> success, failed_generation |-> failed_generation,
     failed_validation |-> failed_validation, no_patterns |-> no_patterns,
     timeouts |-> timeouts]

\* the counting of one result (the loop body of "Process results")
CountResult(stats, result) ==
    IF result.status = "success"
    THEN [stats EXCEPT !.success = @ + 1]
    ELSE IF result.status = "no_patterns"
    THEN [stats EXCEPT !.no_patterns = @ + 1]
    ELSE IF result.status = "failed_validation"
    THEN [stats EXCEPT !.failed_validation = @ + 1]
    ELSE IF MentionsTimeout(result.error)
    THEN [stats EXCEPT !.timeouts = @ + 1]
    ELSE [stats EXCEPT !.failed_generation = @ + 1]

\* error_msg = result.get('error', ''); 'Timeout' in error_msg raises a
\* TypeError when the result carries the error None
CountRaises(result) ==
    /\ result.status \notin {"success", "no_patterns", "failed_validation"}
    /\ result.error = NoMessage

\* if result.get('error') / if error_msg: stats['errors'].append(...), on
\* the truth of the text: None and '' are false
ErrorSampled(result) ==
    CASE result.status \in {"success", "no_patterns"} -> FALSE
      [] OTHER -> result.error # NoMessage /\ result.error[1] # <<>>

InitBatch ==
    /\ IdleSelector
    /\ pc = "dispatch"
    /\ \E n \in 1..MaxUnits :
         call \in [work_items : [1..n -> UnitPool],
                   workers : WorkersPool,
                   timeout : TimeoutPool,
                   batch_size : BatchSizePool]
    /\ ret = [now |-> 0,
              tasks |-> [i \in 1..Len(call.work_items) |-> Unsubmitted],
              batch_start |-> 1,
              awaited |-> 0,
              wait_start |-> 0,
              results |-> <<>>,
              counted |-> 0,
              stats |-> Stats(0, 0, 0, 0, 0),
              errors |-> <<>>]

\* with Pool(processes=workers) as pool: every item of the batch is submitted
OpenBatch ==
    /\ pc = "dispatch"
    /\ call.workers > 1
    /\ ret.batch_start \in BatchStarts
    /\ LET submitted == [i \in DOMAIN ret.tasks |->
                            IF i \in ret.batch_start..BatchLast(ret.batch_start)
                            THEN [at |-> "queued", started |-> -1, ended |-> 0]
                            ELSE ret.tasks[i]]
       IN  ret' = [ret EXCEPT !.tasks = TakeQueued(submitted, ret.now),
                              !.awaited = ret.batch_start,
                              !.wait_start = ret.now]
    /\ pc' = "collect"
    /\ UNCHANGED <<call, selector_vars>>

\* ar.get(timeout=timeout) is waiting: the result is not there and the
\* timeout has not passed
Waiting ==
    /\ pc = "collect"
    /\ ret.awaited <= BatchLast(ret.batch_start)
    /\ ret.tasks[ret.awaited].at # "done"
    /\ ret.now - ret.wait_start < call.timeout

\* one tick passes while the driver waits
Tick ==
    /\ Waiting
    /\ ret' = [ret EXCEPT !.now = @ + 1,
                          !.tasks = TakeQueued(FinishRunning(ret.tasks, ret.now + 1),
                                               ret.now + 1)]
    /\ UNCHANGED <<pc, call, selector_vars>>

\* The unit returned at the very moment at which the wait for it ends: the
\* result and the timeout of ar.get race, and either is what the driver gets
AtDeadline ==
    /\ ret.tasks[ret.awaited].at = "done"
    /\ ret.tasks[ret.awaited].ended = ret.now
    /\ ret.now - ret.wait_start = call.timeout

\* result = ar.get(timeout=timeout); results.append(result)
CollectResult ==
    /\ pc = "collect"
    /\ ret.awaited <= BatchLast(ret.batch_start)
    /\ ret.tasks[ret.awaited].at = "done"
    /\ call.work_items[ret.awaited].returns.status # "exception"
    /\ ret' = [ret EXCEPT !.results = Append(@, UnitReturned(ret.awaited,
                                              call.work_items[ret.awaited].returns)),
                          !.awaited = @ + 1,
                          !.wait_start = ret.now]
    /\ UNCHANGED <<pc, call, selector_vars>>

\* except Exception as e: the worker's exception is raised by ar.get
CollectException ==
    /\ pc = "collect"
    /\ ret.awaited <= BatchLast(ret.batch_start)
    /\ ret.tasks[ret.awaited].at = "done"
    /\ call.work_items[ret.awaited].returns.status = "exception"
    /\ ret' = [ret EXCEPT !.results = Append(@, ExceptionResult(ret.awaited,
                                              call.work_items[ret.awaited].returns.error[1])),
                          !.awaited = @ + 1,
                          !.wait_start = ret.now]
    /\ UNCHANGED <<pc, call, selector_vars>>

\* except MPTimeoutError: the wait ended without a result
CollectTimeout ==
    /\ pc = "collect"
    /\ ret.awaited <= BatchLast(ret.batch_start)
    /\ \/ /\ ret.tasks[ret.awaited].at # "done"
          /\ ret.now - ret.wait_start >= call.timeout
       \/ AtDeadline
    /\ ret' = [ret EXCEPT !.results = Append(@, TimeoutResult(ret.awaited)),
                          !.awaited = @ + 1,
                          !.wait_start = ret.now]
    /\ UNCHANGED <<pc, call, selector_vars>>

\* pool.terminate(); pool.join(); then the next batch
CloseBatch ==
    /\ pc = "collect"
    /\ ret.awaited > BatchLast(ret.batch_start)
    /\ ret' = [ret EXCEPT !.tasks = TerminateWorkers(@, ret.now),
                          !.batch_start = @ + ActualBatchSize]
    /\ pc' = "dispatch"
    /\ UNCHANGED <<call, selector_vars>>

\* workers <= 1: result = process_single_template(item), in the driver's
\* own process, without a timeout and outside every try. A unit that never
\* returns leaves the driver in the call; what a unit raises is raised out
\* of test_from_database, before any result is counted
RunSequential ==
    /\ pc = "dispatch"
    /\ call.workers <= 1
    /\ ret.batch_start <= Len(call.work_items)
    /\ LET item == call.work_items[ret.batch_start]
           ran == [ret EXCEPT
                     !.now = @ + item.runs,
                     !.tasks[ret.batch_start] =
                         [at |-> "done", started |-> ret.now, ended |-> ret.now + item.runs]]
       IN  /\ ~item.hangs
           /\ IF item.returns.status = "exception"
              THEN /\ ret' = ran
                   /\ pc' = "raised"
              ELSE /\ ret' = [ran EXCEPT
                                !.results = Append(@, UnitReturned(ret.batch_start, item.returns)),
                                !.batch_start = @ + 1]
                   /\ pc' = pc
    /\ UNCHANGED <<call, selector_vars>>

\* workers > 1 and a batch size of 0: range(0, len(work_items), 0) raises
\* a ValueError out of test_from_database
RaiseBatchRange ==
    /\ pc = "dispatch"
    /\ call.workers > 1
    /\ ActualBatchSize = 0
    /\ pc' = "raised"
    /\ UNCHANGED <<ret, call, selector_vars>>

\* the loop over the items (workers <= 1) or over the batches is over: on
\* to "Process results"
StartCounting ==
    /\ pc = "dispatch"
    /\ IF call.workers > 1
       THEN ActualBatchSize # 0 /\ ret.batch_start \notin BatchStarts
       ELSE ret.batch_start > Len(call.work_items)
    /\ pc' = "count"
    /\ UNCHANGED <<ret, call, selector_vars>>

\* for result in results: one result is counted
CountOne ==
    /\ pc = "count"
    /\ ret.counted < Len(ret.results)
    /\ LET result == ret.results[ret.counted + 1]
       IN  IF CountRaises(result)
           THEN pc' = "raised" /\ UNCHANGED ret
           ELSE /\ pc' = pc
                /\ ret' = [ret EXCEPT
                             !.counted = @ + 1,
                             !.stats = CountResult(@, result),
                             !.errors = IF ErrorSampled(result)
                                        THEN Append(@, <<result.id, result.error>>)
                                        ELSE @]
    /\ UNCHANGED <<call, selector_vars>>

\* the summary is printed and test_from_database returns
PrintSummary ==
    /\ pc = "count"
    /\ ret.counted = Len(ret.results)
    /\ pc' = "summary"
    /\ UNCHANGED <<ret, call, selector_vars>>

NextBatch ==
    \/ OpenBatch
    \/ Tick
    \/ CollectResult
    \/ CollectException
    \/ CollectTimeout
    \/ CloseBatch
    \/ RunSequential
    \/ RaiseBatchRange
    \/ StartCounting
    \/ CountOne
    \/ PrintSummary

SpecBatch == InitBatch /\ [][NextBatch]_vars

\* the driver and the clock keep going: a step that can be taken is taken
SpecBatchLive == SpecBatch /\ WF_vars(NextBatch)

\* ---------------------------------------------------------------------
\* Claims on the batch driver

Parallel == call.workers > 1

\* a worker took the unit
Started(i) == ret.tasks[i].started >= 0

\* how long the unit ran, once it has returned or its worker was terminated
RunningTime(i) == ret.tasks[i].ended - ret.tasks[i].started

\* the result of unit i is there and is a Timeout
RecordedTimeout(i) ==
    /\ i <= Len(ret.results)
    /\ ret.results[i] = TimeoutResult(i)

\* the number of results recorded as a Timeout
TimeoutsRecorded ==
    Cardinality({i \in 1..Len(ret.results) : RecordedTimeout(i)})

\* C21: in parallel processing every unit that ran for longer than the
\* per-unit timeout is recorded as a Timeout, the Timeouts are counted under
\* timeouts and not under failed generation, and no worker outlives its
\* batch
C21_OverrunRecordedAsTimeout ==
    (pc = "summary" /\ Parallel) =>
        /\ \A i \in DOMAIN ret.tasks :
              (Started(i) /\ RunningTime(i) > call.timeout) => RecordedTimeout(i)
        /\ ret.stats.timeouts >= TimeoutsRecorded
        /\ \A i \in DOMAIN ret.tasks : ret.tasks[i].at \notin {"queued", "running"}

\* every result recorded as a Timeout is counted under timeouts
TimeoutsCounted == pc = "summary" => ret.stats.timeouts >= TimeoutsRecorded

\* a result that is not a Timeout is counted under timeouts when its error
\* holds the word: the exception of a worker whose text has it
ExceptionCountedAsTimeout ==
    /\ pc = "summary"
    /\ ret.stats.timeouts > TimeoutsRecorded

\* between the batches and after them no worker is left
NoWorkerOutlivesBatch ==
    pc \in {"dispatch", "count", "summary"} =>
        \A i \in DOMAIN ret.tasks : ret.tasks[i].at \notin {"queued", "running"}

\* C30: a unit is recorded as a Timeout only if a worker took it and it ran
\* for at least the per-unit timeout
C30_TimeoutOnlyForOverrun ==
    (pc = "summary" /\ Parallel) =>
        \A i \in DOMAIN ret.tasks :
            RecordedTimeout(i) => (Started(i) /\ RunningTime(i) >= call.timeout)

\* the number of results of a status
Recorded(statuses) ==
    Cardinality({i \in 1..Len(ret.results) : ret.results[i].status \in statuses})

\* one result per dispatched unit, in the order of dispatch, and every
\* result counted in one category: the one of its status, a result of
\* another status under failed generation or under timeouts
CountedOnce ==
    /\ Len(ret.results) = Len(call.work_items)
    /\ \A i \in 1..Len(ret.results) : ret.results[i].id = i
    /\ ret.stats.success = Recorded({"success"})
    /\ ret.stats.no_patterns = Recorded({"no_patterns"})
    /\ ret.stats.failed_validation = Recorded({"failed_validation"})
    /\ ret.stats.failed_generation + ret.stats.timeouts = Recorded({"failed_generation"})
    /\ ret.stats.timeouts >= TimeoutsRecorded
    /\ ret.stats.success + ret.stats.failed_generation + ret.stats.failed_validation
         + ret.stats.no_patterns + ret.stats.timeouts = Len(call.work_items)

\* C22: whatever the units do, the driver reaches its summary without
\* raising, with one result per unit, each counted in exactly one category
C22_AlwaysCompletesAndCounts ==
    /\ [](pc # "raised")
    /\ [](pc = "summary" => CountedOnce)
    /\ <>(pc = "summary")

\* the parts of C22, one by one
NeverRaises == pc # "raised"
\* the batches cover the items: workers > 1 with a batch size of 1 or more
Batched == Parallel /\ call.batch_size >= 1
CountedOnceAtSummary == (pc = "summary" /\ (Parallel => Batched)) => CountedOnce
ParallelNeverRaises == Batched => pc # "raised"
ReachesSummary == <>(pc = "summary")
ParallelReachesSummary == Batched ~> (pc = "summary")
\* workers > 1 and a batch size below 0: no item is dispatched and the
\* summary counts nothing
NothingDispatched ==
    (pc = "summary" /\ Parallel /\ call.batch_size < 0) =>
        /\ ret.results = <<>>
        /\ \A i \in DOMAIN ret.tasks : ret.tasks[i] = Unsubmitted
\* workers > 1 and a batch size of 0: the driver raises before any item is
\* dispatched
ZeroBatchRaises ==
    (Parallel /\ call.batch_size = 0) =>
        /\ pc \in {"dispatch", "raised"}
        /\ ret.results = <<>>

\* ---------------------------------------------------------------------
\* parsing_fire/ttp_fire.py ThreadSafeConnection. The state of the object
\* and of the threads using it is the record ret: the connections made so
\* far, the attribute `connection` of self._local as each thread sees it,
\* the get_connection blocks each thread is in, and the exception each
\* thread is raising.

Threads == {"t1", "t2"}

\* connections sqlite3.connect may make in a run
MaxConnections == 3
\* get_connection blocks a thread may nest
MaxDepth == 2

\* what the body of a block raises: an Exception, or a BaseException that
\* is not one (KeyboardInterrupt, SystemExit)
RaisedPool == {"Exception", "KeyboardInterrupt"}

\* no exception is being raised
NotRaising == ""

\* hasattr(self._local, 'connection') is False: no connection
NoConnection == 0

\* self._local = threading.local(): the attribute a thread reads and writes
\* is its own
LocalOf_shared(t) == "t1"

LocalOf(t) == t

\* except Exception as e
HandlerCatches_nothing(kind) == FALSE

HandlerCatches(kind) == kind = "Exception"

Connection(t) == ret.local[LocalOf(t)]

\* sqlite3.connect(self.db_path), by thread t
Connect(conns, t) == Append(conns, [creator |-> t, state |-> "open"])

\* self._local.connection.close(); how it came to be closed is kept
Close(conns, id, how) == [conns EXCEPT ![id].state = how]

InitConn ==
    /\ IdleSelector
    /\ pc = "threads"
    /\ call = None
    /\ ret = [conns |-> <<>>,
              local |-> [t \in Threads |-> NoConnection],
              blocks |-> [t \in Threads |-> <<>>],
              raising |-> [t \in Threads |-> NotRaising]]

\* with self.get_connection() as conn: up to the yield
EnterBlock(t) ==
    /\ ret.raising[t] = NotRaising
    /\ Len(ret.blocks[t]) < MaxDepth
    /\ IF Connection(t) = NoConnection
       THEN /\ Len(ret.conns) < MaxConnections
            /\ ret' = [ret EXCEPT
                         !.conns = Connect(@, t),
                         !.local[LocalOf(t)] = Len(ret.conns) + 1,
                         !.blocks[t] = Append(@, Len(ret.conns) + 1)]
       ELSE ret' = [ret EXCEPT !.blocks[t] = Append(@, Connection(t))]
    /\ UNCHANGED <<pc, call, selector_vars>>

\* the body of the innermost block of t ends without raising
LeaveBlock(t) ==
    /\ ret.raising[t] = NotRaising
    /\ ret.blocks[t] # <<>>
    /\ ret' = [ret EXCEPT !.blocks[t] = SubSeq(@, 1, Len(@) - 1)]
    /\ UNCHANGED <<pc, call, selector_vars>>

\* the except clause of get_connection, for an exception of the kind that
\* reaches the innermost block of t; the exception goes on to the caller
Handle(t, kind) ==
    [ret EXCEPT
        !.conns = IF HandlerCatches(kind) /\ Connection(t) # NoConnection
                  THEN Close(@, Connection(t), "raised")
                  ELSE @,
        !.local[LocalOf(t)] = IF HandlerCatches(kind) THEN NoConnection ELSE @,
        !.blocks[t] = SubSeq(@, 1, Len(@) - 1),
        !.raising[t] = kind]

\* the body of the innermost block of t raises
BodyRaises(t) ==
    /\ ret.raising[t] = NotRaising
    /\ ret.blocks[t] # <<>>
    /\ \E kind \in RaisedPool : ret' = Handle(t, kind)
    /\ UNCHANGED <<pc, call, selector_vars>>

\* the exception leaves an enclosing block of t the same way
Propagate(t) ==
    /\ ret.raising[t] # NotRaising
    /\ ret.blocks[t] # <<>>
    /\ ret' = Handle(t, ret.raising[t])
    /\ UNCHANGED <<pc, call, selector_vars>>

\* the caller of t catches the exception
Caught(t) ==
    /\ ret.raising[t] # NotRaising
    /\ ret' = [ret EXCEPT !.raising[t] = NotRaising]
    /\ UNCHANGED <<pc, call, selector_vars>>

\* close_all, called by t
CloseAll(t) ==
    /\ ret.raising[t] = NotRaising
    /\ Connection(t) # NoConnection
    /\ ret' = [ret EXCEPT !.conns = Close(@, Connection(t), "close_all"),
                          !.local[LocalOf(t)] = NoConnection]
    /\ UNCHANGED <<pc, call, selector_vars>>

NextConn ==
    \E t \in Threads :
        \/ EnterBlock(t)
        \/ LeaveBlock(t)
        \/ BodyRaises(t)
        \/ Propagate(t)
        \/ Caught(t)
        \/ CloseAll(t)

SpecConn == InitConn /\ [][NextConn]_vars

\* ---------------------------------------------------------------------
\* Claims on ThreadSafeConnection

\* the connections of t that are open
OpenOf(t) ==
    {id \in 1..Len(ret.conns) :
        ret.conns[id].creator = t /\ ret.conns[id].state = "open"}

\* C23: a connection is yielded only to the thread that made it; a thread
\* has at most one open connection, the one its next get_connection yields;
\* get_connection makes a connection only when the thread has none
C23_ConnectionPerThread ==
    /\ [](pc = "threads" =>
            \A t \in Threads :
               /\ \A k \in 1..Len(ret.blocks[t]) :
                     ret.conns[ret.blocks[t][k]].creator = t
               /\ Cardinality(OpenOf(t)) <= 1
               /\ OpenOf(t) = {ret.local[t]} \ {NoConnection})
    /\ [][\A t \in Threads :
             (Len(ret'.blocks[t]) > Len(ret.blocks[t]) /\ ret.local[t] # NoConnection)
                => /\ ret'.conns = ret.conns
                   /\ ret'.blocks[t][Len(ret'.blocks[t])] = ret.local[t]]_vars

\* two threads are in a block at the same time, each with the connection
\* it made, and one of them in a second block with the same connection
C23_Witness ==
    /\ pc = "threads"
    /\ Len(ret.blocks["t1"]) = 2
    /\ ret.blocks["t1"][1] = ret.blocks["t1"][2]
    /\ Len(ret.blocks["t2"]) = 1
    /\ ret.blocks["t1"][1] # ret.blocks["t2"][1]
    /\ ret.conns[ret.blocks["t1"][1]].creator = "t1"
    /\ ret.conns[ret.blocks["t2"][1]].creator = "t2"

\* the step in which the body of a block of t raises
Raises(t) == ret.raising[t] = NotRaising /\ ret'.raising[t] # NotRaising

\* the thread's connection is closed and discarded, the exception goes on,
\* and the other threads keep what they have
ClosedAndDiscarded(t) ==
    /\ ret.local[t] # NoConnection => ret'.conns[ret.local[t]].state = "raised"
    /\ ret'.local[t] = NoConnection
    /\ \A u \in Threads \ {t} :
          /\ ret'.local[u] = ret.local[u]
          /\ ret'.blocks[u] = ret.blocks[u]
          /\ \A id \in OpenOf(u) : ret'.conns[id] = ret.conns[id]

\* the next get_connection of a thread without a connection makes one
MakesNewConnection(t) ==
    (Len(ret'.blocks[t]) > Len(ret.blocks[t]) /\ ret.local[t] = NoConnection)
        => /\ Len(ret'.conns) = Len(ret.conns) + 1
           /\ ret'.blocks[t][Len(ret'.blocks[t])] = Len(ret'.conns)
           /\ ret'.conns[Len(ret'.conns)] = [creator |-> t, state |-> "open"]

\* C24 as stated: whatever the body of a block raises, the thread's
\* connection is closed and discarded and the exception goes on; the
\* thread's next get_connection makes a new connection
C24_AnyRaiseClosesConnection ==
    [][\A t \in Threads :
          /\ Raises(t) => ClosedAndDiscarded(t)
          /\ MakesNewConnection(t)]_vars

\* C24: when the body of a block raises an Exception, the thread's
\* connection is closed and discarded and the exception goes on, the other
\* threads keep their connections, and the thread's next get_connection
\* makes a new connection
C24_ExceptionClosesConnection ==
    [][\A t \in Threads :
          /\ (Raises(t) /\ ret'.raising[t] = "Exception") => ClosedAndDiscarded(t)
          /\ MakesNewConnection(t)]_vars

\* t1 has a new open connection after its first was closed by an exception,
\* and t2 still has the connection it made in between
C24_Witness ==
    /\ pc = "threads"
    /\ Len(ret.conns) = 3
    /\ ret.conns[1] = [creator |-> "t1", state |-> "raised"]
    /\ ret.conns[2] = [creator |-> "t2", state |-> "open"]
    /\ ret.conns[3] = [creator |-> "t1", state |-> "open"]
    /\ ret.local["t1"] = 3
    /\ ret.local["t2"] = 2

\* ---------------------------------------------------------------------
\* The three strategies applied to the same call, each on its own: the
\* inputs are the record call, the result of each strategy a field of ret.

\* Oracle grammars with one and with two Filldown values
StrategyTemplates ==
    {
      \* ['Value Filldown INTF (\\S+)', 'Value PORT (\\d+)', 'Value NAME (\\S+)', 'Value List SN (.+)', '', 'Start', '  ^${INTF} -> Record']
      <<<<"V","a","l","u","e"," ","F","i","l","l","d","o","w","n"," ","I","N","T","F"," ","(","\\","S","+",")">>,
        <<"V","a","l","u","e"," ","P","O","R","T"," ","(","\\","d","+",")">>,
        <<"V","a","l","u","e"," ","N","A","M","E"," ","(","\\","S","+",")">>,
        <<"V","a","l","u","e"," ","L","i","s","t"," ","S","N"," ","(",".","+",")">>,
        <<>>,
        <<"S","t","a","r","t">>,
        <<" "," ","^","$","{","I","N","T","F","}"," ","-",">"," ","R","e","c","o","r","d">>>>,
      \* ['Value Filldown INTF (\\S+)', 'Value Filldown PORT (\\d+)', 'Value NAME (\\S+)', 'Value List SN (.+)', '', 'Start', '  ^${INTF} -> Record']
      <<<<"V","a","l","u","e"," ","F","i","l","l","d","o","w","n"," ","I","N","T","F"," ","(","\\","S","+",")">>,
        <<"V","a","l","u","e"," ","F","i","l","l","d","o","w","n"," ","P","O","R","T"," ","(","\\","d","+",")">>,
        <<"V","a","l","u","e"," ","N","A","M","E"," ","(","\\","S","+",")">>,
        <<"V","a","l","u","e"," ","L","i","s","t"," ","S","N"," ","(",".","+",")">>,
        <<>>,
        <<"S","t","a","r","t">>,
        <<" "," ","^","$","{","I","N","T","F","}"," ","-",">"," ","R","e","c","o","r","d">>>>
    }

StrategyRows ==
    {
      \* ['eth0', '1', 'Gi0/1', ['ABC123']]
      <<StrCell(<<"e","t","h","0">>), StrCell(<<"1">>), StrCell(<<"G","i","0","/","1">>), ListCell(<<<<"A","B","C","1","2","3">>>>)>>,
      \* ['eth0', '7', 'Gi0/7', ['E']]
      <<StrCell(<<"e","t","h","0">>), StrCell(<<"7">>), StrCell(<<"G","i","0","/","7">>), ListCell(<<<<"E">>>>)>>,
      \* ['eth0', '2', 'Gi0/2', ['to', 'core']]
      <<StrCell(<<"e","t","h","0">>), StrCell(<<"2">>), StrCell(<<"G","i","0","/","2">>), ListCell(<<<<"t","o">>, <<"c","o","r","e">>>>)>>
    }

\* Device output with a run of spaces in a section header line, with
\* one-character values inside and outside words, and with indented lines
StrategySamples ==
    {
      \* ['Interface  eth0 mtu 1500', '  1  Gi0/1  ABC123']
      <<<<"I","n","t","e","r","f","a","c","e"," "," ","e","t","h","0"," ","m","t","u"," ","1","5","0","0">>,
        <<" "," ","1"," "," ","G","i","0","/","1"," "," ","A","B","C","1","2","3">>>>,
      \* ['eth0 7 Gi0/7 E', '  7  Gi0/7  E']
      <<<<"e","t","h","0"," ","7"," ","G","i","0","/","7"," ","E">>,
        <<" "," ","7"," "," ","G","i","0","/","7"," "," ","E">>>>,
      \* ['eth0', '   2    Gi0/2   to, core']
      <<<<"e","t","h","0">>,
        <<" "," "," ","2"," "," "," "," ","G","i","0","/","2"," "," "," ","t","o",","," ","c","o","r","e">>>>,
      \* ['eth0 is up', '1  Gi0/1  ABC123', '    7  Gi0/7  E']
      <<<<"e","t","h","0"," ","i","s"," ","u","p">>,
        <<"1"," "," ","G","i","0","/","1"," "," ","A","B","C","1","2","3">>,
        <<" "," "," "," ","7"," "," ","G","i","0","/","7"," "," ","E">>>>
    }

MaxStrategyRows == 2
MaxStrategyMinCols == 3

InitStrategy ==
    /\ IdleSelector
    /\ pc = "strategies"
    /\ \E n \in 1..MaxStrategyRows :
          call \in [template_lines : StrategyTemplates,
                    hs : {SelectorHeaders},
                    rs : [1..n -> StrategyRows],
                    lines : StrategySamples,
                    n : MinMinCols..MaxStrategyMinCols]
    /\ ret = [ms |-> None, table |-> None, para |-> None]

\* generate_multisection_template(headers, rows, cli_content, template_content, min_cols)
StrategyMultiSection ==
    /\ pc = "strategies"
    /\ ret.ms = None
    /\ ret' = [ret EXCEPT !.ms = generate_multisection_template(
                                    call.hs, call.rs, call.lines, call.template_lines, call.n)]
    /\ UNCHANGED <<pc, call, selector_vars>>

\* generate_table_template(headers, rows, cli_content, min_cols)
StrategyTable ==
    /\ pc = "strategies"
    /\ ret.table = None
    /\ ret' = [ret EXCEPT !.table = generate_table_template(
                                       call.hs, call.rs, call.lines, call.n)]
    /\ UNCHANGED <<pc, call, selector_vars>>

\* generate_paragraph_template(headers, rows, cli_content, min_values=max(3, min_cols))
StrategyParagraph ==
    /\ pc = "strategies"
    /\ ret.para = None
    /\ ret' = [ret EXCEPT !.para = generate_paragraph_template(
                                      call.hs, call.rs, call.lines,
                                      Max(ParagraphMinValues, call.n))]
    /\ UNCHANGED <<pc, call, selector_vars>>

NextStrategy ==
    \/ StrategyMultiSection
    \/ StrategyTable
    \/ StrategyParagraph

SpecStrategy == InitStrategy /\ [][NextStrategy]_vars

\* ---------------------------------------------------------------------
\* Claims on the lines the strategies emit

\* the whitespace a line starts with
LeadingWhitespace(line) == SubSeq(line, 1, Len(line) - Len(LStrip(line)))

\* the line after its leading whitespace
AfterIndentation(line) == SubSeq(line, Len(LeadingWhitespace(line)) + 1, Len(line))

\* the line holds n spaces in a row
HasSpaceRun(line, n) ==
    \E i \in 1..(Len(line) - n + 1) : \A k \in 0..(n - 1) : line[i + k] = " "

\* the lines a strategy result emits, each with the source line it was
\* built from: <<emitted, source>>
TableEmitted(result, lines) ==
    {<<result.ttp_patterns[k][2][1],
       find_source_line(lines, result.ttp_patterns[k][2][2]).line>> :
        k \in 1..Len(result.ttp_patterns)}

MultiSectionEmitted(result, lines) ==
    IF result.ok
    THEN {<<result.text[2], lines[result.header_idx + 1]>>,
          <<result.text[4], lines[result.data_idx + 1]>>}
    ELSE {}

ParagraphEmitted(result, lines) ==
    {<<result.line_templates[k][2], lines[result.line_templates[k][1] + 1]>> :
        k \in 1..Len(result.line_templates)}

StrategiesDone ==
    /\ pc = "strategies"
    /\ ret.ms # None
    /\ ret.table # None
    /\ ret.para # None

\* C25: every line emitted by Table, MultiSection and Paragraph starts with
\* exactly the leading whitespace of the source line it was built from
C25_IndentationPreserved ==
    StrategiesDone =>
        \A e \in TableEmitted(ret.table, call.lines)
                 \cup MultiSectionEmitted(ret.ms, call.lines)
                 \cup ParagraphEmitted(ret.para, call.lines) :
            LeadingWhitespace(e[1]) = LeadingWhitespace(e[2])

\* C26: no line emitted by Table or MultiSection, header line or data line,
\* has a run of two or more spaces after its leading indentation, and no
\* Paragraph line has a run of more than two
C26_InteriorRunsCollapsed ==
    StrategiesDone =>
        /\ \A e \in TableEmitted(ret.table, call.lines)
                    \cup MultiSectionEmitted(ret.ms, call.lines) :
               ~HasSpaceRun(AfterIndentation(e[1]), TableMinRun)
        /\ \A e \in ParagraphEmitted(ret.para, call.lines) :
               ~HasSpaceRun(AfterIndentation(e[1]), ParagraphMinRun)

\* a word character c occurs on the line with no word character next to it
OccursAsWord(line, c) ==
    \E i \in 1..Len(line) :
        /\ line[i] = c
        /\ i > 1 => ~IsWordChar(line[i - 1])
        /\ i < Len(line) => ~IsWordChar(line[i + 1])

\* a captured value is on the line: a one-character value as a word
OnLine(v, line) ==
    IF Len(v) = 1 THEN OccursAsWord(line, v[1]) ELSE v # <<>> /\ Contains(line, v)

\* the number of the values that are on the line
CountOn(values, line) ==
    Cardinality({i \in 1..Len(values) : OnLine(values[i][2], line)})

\* at least one filldown value and at most one non-filldown value
HeaderLike(result, line) ==
    /\ CountOn(result.filldown_values, line) >= 1
    /\ CountOn(result.regular_values, line) <= MaxRegularInHeader

\* C27: the header line of MultiSection is the first line with at least one
\* filldown value and at most one non-filldown value of the selected record
C27_HeaderLineChosen ==
    (pc = "strategies" /\ ret.ms # None /\ ret.ms.ok) =>
        /\ HeaderLike(ret.ms, call.lines[ret.ms.header_idx + 1])
        /\ \A i \in 1..ret.ms.header_idx : ~HeaderLike(ret.ms, call.lines[i])

\* the one-character values among the values attributed to a line
OneCharacter(values) == {values[i][2] : i \in {k \in 1..Len(values) : Len(values[k][2]) = 1}}

\* C28: a one-character value is attributed to the header line or to the
\* data line of MultiSection only if it occurs there as a word
C28_OneCharacterValuesAsWords ==
    (pc = "strategies" /\ ret.ms # None /\ ret.ms.ok) =>
        LET header_line == FindHeaderLine(call.lines, 0, ret.ms.filldown_values,
                                          ret.ms.regular_values)
            data_line == FindDataLine(call.lines, 0, ret.ms.header_idx,
                                      ret.ms.regular_values, call.n)
        IN  /\ \A v \in OneCharacter(header_line.values) : OccursAsWord(header_line.line, v[1])
            /\ \A v \in OneCharacter(data_line.values) : OccursAsWord(data_line.line, v[1])

\* ---------------------------------------------------------------------
\* Claim on the last placeholder of a line (SpecSubst)

\* the positions of the line at which a placeholder opens
OpenPositions(line) ==
    {i \in 1..(Len(line) - 1) : line[i] = "{" /\ line[i + 1] = "{"}

\* the placeholder that opens last on the line, up to its closing braces
RightmostPlaceholder(line) ==
    LET p == CHOOSE i \in OpenPositions(line) : \A j \in OpenPositions(line) : j <= i
        rest == SubSeq(line, p, Len(line))
        close == Find(rest, <<"}","}">>)
    IN  IF close = -1 THEN rest ELSE SubSeq(rest, 1, close + 2)

\* C29: in a line returned by substitute_ttp_vars that holds a placeholder,
\* the rightmost placeholder is an ORPHRASE placeholder
C29_LastPlaceholderIsPhrase ==
    (pc = "done" /\ OpenPositions(ret.line) # {}) =>
        Contains(RightmostPlaceholder(ret.line), PhraseFilter)
====
